---------------------------- MODULE Spec2Model ----------------------------
(***************************************************************************)
(* State-machine model of the combat simulation of StarWars1:              *)
(*   src/js/game.js     Game        (start / pause / quit / game over,     *)
(*                                   the frame callback gameLoop, update)  *)
(*   src/js/player.js   Player      (update, collisions, reset)            *)
(*   src/js/enemies.js  EnemyManager (update, ledger, director, boss)      *)
(*                                                                         *)
(* A call of gameLoop adds the elapsed time to the accumulator and runs one *)
(* tick per whole frame time in it; inLoop says that such a call is under  *)
(* way.  One logical tick (Game.update) is modelled by three kinds of      *)
(* steps that the program counter pc forces to run back to back:           *)
(*   GameUpdate   player.update() and the head of EnemyManager.update()    *)
(*                (boss timer, spawn timer, difficulty timer)              *)
(*   EnemyStep    one iteration of the reverse loop over this.enemies      *)
(*   EndUpdate    updateProjectiles() and the two ledger timers            *)
(*                                                                         *)
(* Geometry is not represented.  Whether two circles overlap, whether an   *)
(* entity has left the canvas, what Math.random() returns and what         *)
(* performance.now() reads are inputs of the steps, drawn with \E.  An     *)
(* enemy is the part of its record the combat rules read: type, value,     *)
(* isBoss, health, lastHitTime.  Projectile lists are their lengths.       *)
(*                                                                         *)
(* The timers of the program are long (120, 300, 1000, 1800 ticks), so a   *)
(* specification fixes the inputs of most ticks (a scripted session: who   *)
(* fires when, every shot of a hit phase lands) and leaves them free in    *)
(* its windows.  Every specification starts from the constructors.         *)
(***************************************************************************)
EXTENDS Integers, Sequences, FiniteSets, TLC

VARIABLES
  isRunning,          \* Game.isRunning
  pc, i,              \* position inside EnemyManager.update: "idle" | "enemies", loop index
  now,                \* last reading of performance.now(), in ms
  alive,              \* Player.alive
  invulnerable,       \* Player.invulnerable
  invulnerableTimer,  \* Player.invulnerableTimer
  shootCooldown,      \* Player.shootCooldown
  projectiles,        \* Len of Player.projectiles
  enemies,            \* EnemyManager.enemies
  enemyProjectiles,   \* Len of EnemyManager.enemyProjectiles
  spawnTimer, spawnRate, difficultyTimer, maxEnemies,
  score, scoreMultiplier, combo, comboTimer, multiplierTimer,
  frameCount, bossActive, bossTimer,
  isPaused,           \* Game.isPaused
  accumulator,        \* Game.accumulator, in thirds of a millisecond
  inLoop,             \* a call of gameLoop is between its first and its last statement
  pendingFrames,      \* requestAnimationFrame callbacks requested and not yet run or cancelled
  animationFrameId,   \* Game.animationFrameId: "null" | "live" (a pending request) | "stale"
  probe               \* the kinematic state of one enemy, for the specifications that follow one

gameVars   == <<isRunning, pc, i, now>>
playerVars == <<alive, invulnerable, invulnerableTimer, shootCooldown, projectiles>>
ledgerVars == <<score, scoreMultiplier, combo, comboTimer, multiplierTimer>>
directorVars == <<spawnTimer, spawnRate, difficultyTimer, maxEnemies, bossActive, bossTimer>>
loopVars   == <<isPaused, accumulator, inLoop, pendingFrames, animationFrameId>>
vars == <<gameVars, playerVars, ledgerVars, directorVars, enemies, enemyProjectiles, frameCount,
          loopVars, probe>>

---------------------------------------------------------------------------
(* Program constants *)

InitialSpawnRate    == 120
MinSpawnRate        == 30
DifficultyInterval  == 1000
InitialMaxEnemies   == 20
MaxEnemiesCeiling   == 50
BossSpawnThreshold  == 1800
ComboWindow         == 120
MultiplierWindow    == 300
ComboTier2          == 5
ComboTier4          == 10
HitPoints           == 50
DefaultValue        == 100
BossHealth          == 20
BossValue           == 1000
SeekerValue         == 100
WandererValue       == 50
SpinnerValue        == 150
InvulnerableTicks   == 120
ShootDelay          == 8
ThrottleMs          == 80

FrameMs             == 17
FrameTime           == 50

EnemyTypes == <<"seeker", "wanderer", "spinner">>

---------------------------------------------------------------------------
(* Sessions: the inputs of a run.  A session is a record                   *)
(*   free   the ticks whose inputs are unconstrained                       *)
(*   shoot  the scripted ticks in which the fire button is held            *)
(*   hit    the scripted ticks in which a player projectile in flight      *)
(*          overlaps the enemy being processed                             *)
(*   stock  the player projectiles a scripted tick keeps in flight         *)
(*   off    the scripted ticks in which every enemy processed is found     *)
(*          more than 100 units outside the canvas                         *)
(*   lag    the elapsed times a frame callback of a free tick may see      *)
(*   limit  the last tick of the run                                       *)
(* In a scripted tick nothing else happens: no contact with the player, no *)
(* enemy fire, nobody pauses or quits, and each frame callback comes one   *)
(* frame time after the previous one.                                      *)

Interval(a, b) == {f \in a..b : TRUE}

Free(s, f) == f \in s.free

Max(a, b) == IF a >= b THEN a ELSE b

ShootInputs(s, f)    == IF Free(s, f) THEN BOOLEAN ELSE {f \in s.shoot}
ClockInputs(s, f)    == IF Free(s, f) THEN {0, FrameMs, ThrottleMs} ELSE {FrameMs}
LeaveInputs(s, f, n) == IF Free(s, f) THEN 0..n ELSE {Max(0, n - s.stock)}
\* The type a scripted tick draws: the three types in rotation.
ScriptType(f) == ((f \div InitialSpawnRate) % Len(EnemyTypes)) + 1

SpawnTypeInputs(s, f) ==
  IF Free(s, f) THEN 1..Len(EnemyTypes)
  ELSE {ScriptType(f)}
CollideInputs(s, f)  == IF Free(s, f) THEN BOOLEAN ELSE {FALSE}
OverlapInputs(s, f)  == IF Free(s, f) THEN BOOLEAN ELSE {f \in s.hit}
OffInputs(s, f)      == IF Free(s, f) THEN BOOLEAN ELSE {f \in s.off}
DeltaInputs(s, f)    == IF Free(s, f) THEN s.lag ELSE {FrameTime}
ShotHitInputs(s, f)  == IF Free(s, f) THEN BOOLEAN ELSE {FALSE}
ShotLeaveInputs(s, f, n) == IF Free(s, f) THEN 0..n ELSE {0}

---------------------------------------------------------------------------
(* Records and pure helpers *)

\* A splice that drops the last element whatever the index.
SplicePop(seq, k) == SubSeq(seq, 1, Len(seq) - 1)

\* A splice that removes the element below the one the loop is at.
SpliceBelow(seq, k) == SubSeq(seq, 1, k - 2) \o SubSeq(seq, k, Len(seq))

\* Array.prototype.splice(k, 1) on a 1-based sequence.
Splice(seq, k) == SubSeq(seq, 1, k - 1) \o SubSeq(seq, k + 1, Len(seq))

TypeValue(t) ==
  CASE t = "seeker"   -> SeekerValue
    [] t = "wanderer" -> WandererValue
    [] t = "spinner"  -> SpinnerValue

\* createSeeker / createWanderer / createSpinner: a one-hit enemy carries no
\* health and no lastHitTime (undefined, falsy: 0 here).
CreateEnemy(t) ==
  [type |-> t, value |-> TypeValue(t), isBoss |-> FALSE, health |-> 0, lastHitTime |-> 0]

CreateBoss ==
  [type |-> "boss", value |-> BossValue, isBoss |-> TRUE, health |-> BossHealth,
   lastHitTime |-> 0]

\* The score ledger as one record.
Ledger ==
  [score |-> score, scoreMultiplier |-> scoreMultiplier, combo |-> combo,
   comboTimer |-> comboTimer, multiplierTimer |-> multiplierTimer]

\* A kill that is worth nothing.
PointsNone(e, m) == 0

\* updateScore: points = (enemy.value || 100) * scoreMultiplier
Points(e, m) == (IF e.value # 0 THEN e.value ELSE DefaultValue) * m

\* An updateScore whose upper tier is 3 instead of 4.
UpdateScoreTriple(L, e) ==
  LET c == L.combo + 1
      base == [L EXCEPT !.score = @ + Points(e, L.scoreMultiplier),
                        !.combo = c,
                        !.comboTimer = ComboWindow]
  IN IF c >= ComboTier4
       THEN [base EXCEPT !.scoreMultiplier = 3, !.multiplierTimer = MultiplierWindow]
     ELSE IF c >= ComboTier2
       THEN [base EXCEPT !.scoreMultiplier = 2, !.multiplierTimer = MultiplierWindow]
     ELSE base

\* updateScore(enemy)
UpdateScore(L, e) ==
  LET c == L.combo + 1
      base == [L EXCEPT !.score = @ + Points(e, L.scoreMultiplier),
                        !.combo = c,
                        !.comboTimer = ComboWindow]
  IN IF c >= ComboTier4
       THEN [base EXCEPT !.scoreMultiplier = 4, !.multiplierTimer = MultiplierWindow]
     ELSE IF c >= ComboTier2
       THEN [base EXCEPT !.scoreMultiplier = 2, !.multiplierTimer = MultiplierWindow]
     ELSE base

\* Per-hit points that the score multiplier scales.
HitScoreMultiplied(L) == [L EXCEPT !.score = @ + HitPoints * L.scoreMultiplier]

\* The per-hit points of a multi-hit enemy (update, lines 129-131).
HitScore(L) == [L EXCEPT !.score = @ + HitPoints]

\* A combo expiry that takes the multiplier with it.
ComboTickEndsMultiplier(L) ==
  IF L.combo > 0
    THEN IF L.comboTimer - 1 <= 0
           THEN [L EXCEPT !.comboTimer = @ - 1, !.combo = 0, !.scoreMultiplier = 1]
           ELSE [L EXCEPT !.comboTimer = @ - 1]
    ELSE L

\* A combo that outlives its timer by one tick.
ComboTickLate(L) ==
  IF L.combo > 0
    THEN IF L.comboTimer - 1 < 0
           THEN [L EXCEPT !.comboTimer = @ - 1, !.combo = 0]
           ELSE [L EXCEPT !.comboTimer = @ - 1]
    ELSE L

\* A combo timer that expires one tick early.
ComboTickEarly(L) ==
  IF L.combo > 0
    THEN IF L.comboTimer - 1 <= 1
           THEN [L EXCEPT !.comboTimer = @ - 1, !.combo = 0]
           ELSE [L EXCEPT !.comboTimer = @ - 1]
    ELSE L

\* The tail of update(): combo timer, then multiplier timer.
ComboTick(L) ==
  IF L.combo > 0
    THEN IF L.comboTimer - 1 <= 0
           THEN [L EXCEPT !.comboTimer = @ - 1, !.combo = 0]
           ELSE [L EXCEPT !.comboTimer = @ - 1]
    ELSE L

\* A multiplier timer that runs one tick longer.
MultiplierTickLate(L) ==
  IF L.scoreMultiplier > 1
    THEN IF L.multiplierTimer - 1 < 0
           THEN [L EXCEPT !.multiplierTimer = @ - 1, !.scoreMultiplier = 1]
           ELSE [L EXCEPT !.multiplierTimer = @ - 1]
    ELSE L

MultiplierTick(L) ==
  IF L.scoreMultiplier > 1
    THEN IF L.multiplierTimer - 1 <= 0
           THEN [L EXCEPT !.multiplierTimer = @ - 1, !.scoreMultiplier = 1]
           ELSE [L EXCEPT !.multiplierTimer = @ - 1]
    ELSE L

\* A throttle that lets go after two frames.
ThrottledBriefly(e, t) == e.isBoss /\ e.lastHitTime # 0 /\ t - e.lastHitTime < 2 * FrameMs

\* checkProjectileCollision, lines 463-469: the boss hit throttle.
Throttled(e, t) == e.isBoss /\ e.lastHitTime # 0 /\ t - e.lastHitTime < ThrottleMs

\* What one enemy.update() may push on enemyProjectiles.  The shoot timers and the
\* boss's attack phase are inputs; the conditions on player.alive and on the boss's
\* health fraction are the code's.
FireChoices(e, playerAlive) ==
  CASE e.type = "seeker"   -> IF playerAlive THEN {0, 1} ELSE {0}
    [] e.type = "wanderer" -> IF playerAlive THEN {0, 1} ELSE {0}
    [] e.type = "spinner"  -> {0, 1}
    [] e.type = "boss"     ->
         {0, 1} \cup (IF 10 * e.health < 3 * BossHealth THEN {15}
                      ELSE IF 10 * e.health < 6 * BossHealth THEN {3} ELSE {})

FireInputs(s, f, e, playerAlive) ==
  IF Free(s, f) THEN {n \in FireChoices(e, playerAlive) : enemyProjectiles + n <= s.shots}
  ELSE {0}

---------------------------------------------------------------------------
(* The spawn director's state as one record, and its steps *)

Director ==
  [enemies |-> enemies, bossActive |-> bossActive, bossTimer |-> bossTimer,
   spawnTimer |-> spawnTimer, spawnRate |-> spawnRate,
   difficultyTimer |-> difficultyTimer, maxEnemies |-> maxEnemies]

\* spawnBoss()
SpawnBoss(D) ==
  IF D.bossActive THEN D
  ELSE [D EXCEPT !.bossActive = TRUE, !.enemies = Append(@, CreateBoss)]

\* A boss timer that calls the boss one tick early.
BossTimerStepEarly(D) ==
  IF ~D.bossActive
    THEN IF D.bossTimer - 1 <= 1
           THEN [SpawnBoss([D EXCEPT !.bossTimer = @ - 1]) EXCEPT
                   !.bossTimer = BossSpawnThreshold]
           ELSE [D EXCEPT !.bossTimer = @ - 1]
    ELSE D

\* update(), lines 36-43
BossTimerStep(D) ==
  IF ~D.bossActive
    THEN IF D.bossTimer - 1 <= 0
           THEN [SpawnBoss([D EXCEPT !.bossTimer = @ - 1]) EXCEPT
                   !.bossTimer = BossSpawnThreshold]
           ELSE [D EXCEPT !.bossTimer = @ - 1]
    ELSE D

\* A spawn that does not look at the population.
SpawnStepUncapped(D, t) ==
  IF D.spawnTimer + 1 >= D.spawnRate
    THEN [D EXCEPT !.enemies = Append(@, CreateEnemy(EnemyTypes[t])), !.spawnTimer = 0]
    ELSE [D EXCEPT !.spawnTimer = @ + 1]

\* A spawn timer that starts over when the field is full.
SpawnStepRestartsAtCap(D, t) ==
  IF D.spawnTimer + 1 >= D.spawnRate
    THEN IF Len(D.enemies) < D.maxEnemies
           THEN [D EXCEPT !.enemies = Append(@, CreateEnemy(EnemyTypes[t])), !.spawnTimer = 0]
           ELSE [D EXCEPT !.spawnTimer = 0]
    ELSE [D EXCEPT !.spawnTimer = @ + 1]

\* update(), lines 45-53, with spawn(): t indexes the type drawn by randomInt
SpawnStep(D, t) ==
  IF D.spawnTimer + 1 >= D.spawnRate /\ Len(D.enemies) < D.maxEnemies
    THEN [D EXCEPT !.enemies = Append(@, CreateEnemy(EnemyTypes[t])), !.spawnTimer = 0]
    ELSE [D EXCEPT !.spawnTimer = @ + 1]

\* An increaseDifficulty that takes two ticks off the spawn rate.
IncreaseDifficultyByTwo(D) ==
  [D EXCEPT !.spawnRate = IF @ > MinSpawnRate THEN @ - 2 ELSE @,
            !.maxEnemies = IF @ < MaxEnemiesCeiling THEN @ + 1 ELSE @]

\* increaseDifficulty()
IncreaseDifficulty(D) ==
  [D EXCEPT !.spawnRate = IF @ > MinSpawnRate THEN @ - 1 ELSE @,
            !.maxEnemies = IF @ < MaxEnemiesCeiling THEN @ + 1 ELSE @]

\* update(), lines 55-60
DifficultyStep(D) ==
  IF D.difficultyTimer + 1 >= DifficultyInterval
    THEN [IncreaseDifficulty(D) EXCEPT !.difficultyTimer = 0]
    ELSE [D EXCEPT !.difficultyTimer = @ + 1]

\* EnemyManager.reset(): every field it assigns; maxEnemies is not among them.
ResetDirector(D) ==
  [D EXCEPT !.enemies = <<>>, !.spawnTimer = 0, !.spawnRate = InitialSpawnRate,
            !.difficultyTimer = 0, !.bossActive = FALSE,
            !.bossTimer = BossSpawnThreshold]

\* A reset that forgets the multiplier.
ResetLedgerKeepMultiplier ==
  [score |-> 0, scoreMultiplier |-> scoreMultiplier, combo |-> 0, comboTimer |-> 0,
   multiplierTimer |-> 0]

\* EnemyManager.reset(): the ledger fields.
ResetLedger ==
  [score |-> 0, scoreMultiplier |-> 1, combo |-> 0, comboTimer |-> 0,
   multiplierTimer |-> 0]

\* getScore(), getCombo()
GetScore == score
GetCombo == [combo |-> combo, multiplier |-> scoreMultiplier]

SetLedger(L) ==
  /\ score' = L.score
  /\ scoreMultiplier' = L.scoreMultiplier
  /\ combo' = L.combo
  /\ comboTimer' = L.comboTimer
  /\ multiplierTimer' = L.multiplierTimer

SetDirector(D) ==
  /\ enemies' = D.enemies
  /\ bossActive' = D.bossActive
  /\ bossTimer' = D.bossTimer
  /\ spawnTimer' = D.spawnTimer
  /\ spawnRate' = D.spawnRate
  /\ difficultyTimer' = D.difficultyTimer
  /\ maxEnemies' = D.maxEnemies

---------------------------------------------------------------------------
(* The player's step *)

PlayerState ==
  [alive |-> alive, invulnerable |-> invulnerable,
   invulnerableTimer |-> invulnerableTimer, shootCooldown |-> shootCooldown,
   projectiles |-> projectiles]

\* Player.update(), lines 186-194: fire when the button is held and the cooldown is over.
PlayerShoot(P, shooting) ==
  LET fires == shooting /\ P.shootCooldown <= 0
      cd == IF fires THEN ShootDelay ELSE P.shootCooldown
  IN [P EXCEPT !.projectiles = IF fires THEN @ + 1 ELSE @,
               !.shootCooldown = IF cd > 0 THEN cd - 1 ELSE cd]

\* Player.update(), lines 242-258: the invulnerability timer.
PlayerGrace(P) ==
  IF P.invulnerable
    THEN [P EXCEPT !.invulnerableTimer = @ - 1,
                   !.invulnerable = ~(P.invulnerableTimer - 1 <= 0)]
    ELSE P

\* Player.reset()
PlayerReset(P) ==
  [P EXCEPT !.alive = TRUE, !.projectiles = 0, !.invulnerable = TRUE,
            !.invulnerableTimer = InvulnerableTicks]

\* A guard that forgets that the player may be dead already.
CanBeHitWhenDead(P) == ~P.invulnerable

\* Player.checkCollision(), line 446: the guard before the circle test.
CanBeHit(P) == P.alive /\ ~P.invulnerable

SetPlayer(P) ==
  /\ alive' = P.alive
  /\ invulnerable' = P.invulnerable
  /\ invulnerableTimer' = P.invulnerableTimer
  /\ shootCooldown' = P.shootCooldown
  /\ projectiles' = P.projectiles

\* No enemy is followed.
NoProbe == [type |-> "none"]

---------------------------------------------------------------------------
(* Initial state: new Game() builds the Player and the EnemyManager and    *)
(* shows the start menu; nothing runs yet.                                 *)

Init ==
  /\ isRunning = FALSE
  /\ pc = "idle"
  /\ i = 0
  /\ now = 0
  /\ alive = TRUE
  /\ invulnerable = FALSE
  /\ invulnerableTimer = 0
  /\ shootCooldown = 0
  /\ projectiles = 0
  /\ enemies = <<>>
  /\ enemyProjectiles = 0
  /\ spawnTimer = 0
  /\ spawnRate = InitialSpawnRate
  /\ difficultyTimer = 0
  /\ maxEnemies = InitialMaxEnemies
  /\ score = 0
  /\ scoreMultiplier = 1
  /\ combo = 0
  /\ comboTimer = 0
  /\ multiplierTimer = 0
  /\ frameCount = 0
  /\ bossActive = FALSE
  /\ bossTimer = BossSpawnThreshold
  /\ isPaused = FALSE
  /\ accumulator = 0
  /\ inLoop = FALSE
  /\ pendingFrames = 0
  /\ animationFrameId = "null"
  /\ probe = NoProbe

---------------------------------------------------------------------------
(* Actions *)

\* gameLoop(), lines 199-202: requestAnimationFrame, the id kept.
RequestFrame ==
  /\ pendingFrames' = pendingFrames + 1
  /\ animationFrameId' = "live"

\* A cancellation that forgets the id and leaves the request with the browser.
CancelFrameKeepsRequest ==
  /\ pendingFrames' = pendingFrames
  /\ animationFrameId' = "null"

\* pauseGame() / quitToMenu(): if (animationFrameId) { cancelAnimationFrame; = null }
CancelFrame ==
  /\ pendingFrames' = IF animationFrameId = "live" THEN pendingFrames - 1 ELSE pendingFrames
  /\ animationFrameId' = "null"

\* A while loop that stops at one whole frame time: accumulator > frameTime.
LoopGoesOnAbove(acc, playerAlive) == acc > FrameTime \/ ~playerAlive

\* gameLoop(), lines 212-215 and 221: the call goes on while a whole frame time
\* is accumulated; a dead player is still to be noticed by its last statement.
LoopGoesOn(acc, playerAlive) == acc >= FrameTime \/ ~playerAlive

\* startGame() / restartGame(): isRunning = true, resetGame(), then a game loop
\* call with a zero delta.  The start and restart buttons can be clicked once
\* their screen is shown: the start menu after quitToMenu(), which cancels the
\* frame request, the game-over screen 1500 ms after gameOver(), when the request
\* left by the last gameLoop call has run and returned.
StartGame(s) ==
  /\ ~isRunning
  /\ pc = "idle" /\ ~inLoop
  /\ pendingFrames = 0
  /\ isRunning' = TRUE
  /\ isPaused' = FALSE
  /\ SetPlayer(PlayerReset(PlayerState))
  /\ SetDirector(ResetDirector(Director))
  /\ SetLedger(ResetLedger)
  /\ enemyProjectiles' = 0
  /\ RequestFrame
  /\ inLoop' = LoopGoesOn(accumulator, TRUE)
  /\ UNCHANGED <<pc, i, now, frameCount, accumulator, probe>>

\* quitToMenu(), reached from the pause menu between two ticks.
QuitToMenu(s) ==
  /\ isRunning
  /\ pc = "idle" /\ ~inLoop
  /\ Free(s, frameCount)
  /\ isRunning' = FALSE
  /\ isPaused' = FALSE
  /\ CancelFrame
  /\ UNCHANGED <<pc, i, now, playerVars, ledgerVars, directorVars, enemies,
                 enemyProjectiles, frameCount, accumulator, inLoop, probe>>

\* gameLoop(), lines 220-223, and gameOver(): after the ticks of a frame, a dead
\* player ends the run.
GameOver(s) ==
  /\ isRunning
  /\ pc = "idle" /\ inLoop
  /\ accumulator < FrameTime
  /\ ~alive
  /\ isRunning' = FALSE
  /\ isPaused' = FALSE
  /\ inLoop' = FALSE
  /\ UNCHANGED <<pc, i, now, playerVars, ledgerVars, directorVars, enemies,
                 enemyProjectiles, frameCount, accumulator, pendingFrames,
                 animationFrameId, probe>>

\* pauseGame()
PauseGame(s) ==
  /\ isRunning /\ ~isPaused
  /\ pc = "idle" /\ ~inLoop
  /\ Free(s, frameCount)
  /\ isPaused' = TRUE
  /\ CancelFrame
  /\ UNCHANGED <<isRunning, pc, i, now, playerVars, ledgerVars, directorVars, enemies,
                 enemyProjectiles, frameCount, accumulator, inLoop, probe>>

\* resumeGame(): lastTime = performance.now(), then gameLoop(lastTime), a call
\* with a zero delta.
ResumeGame(s) ==
  /\ isRunning /\ isPaused
  /\ pc = "idle" /\ ~inLoop
  /\ isPaused' = FALSE
  /\ RequestFrame
  /\ inLoop' = LoopGoesOn(accumulator, alive)
  /\ UNCHANGED <<isRunning, pc, i, now, playerVars, ledgerVars, directorVars, enemies,
                 enemyProjectiles, frameCount, accumulator, probe>>

\* The browser runs a requested frame callback: gameLoop(time), up to its while
\* loop.  The callback that runs is the one animationFrameId names or another
\* pending one; delta is time - lastTime.
GameLoop(s) ==
  /\ pendingFrames > 0
  /\ pc = "idle" /\ ~inLoop
  /\ \E tracked \in {b \in BOOLEAN : IF b THEN animationFrameId = "live"
                                     ELSE pendingFrames > (IF animationFrameId = "live"
                                                             THEN 1 ELSE 0)} :
       IF ~isRunning
         THEN /\ pendingFrames' = pendingFrames - 1
              /\ animationFrameId' = IF tracked THEN "stale" ELSE animationFrameId
              /\ UNCHANGED <<accumulator, inLoop>>
         ELSE /\ frameCount < s.limit
              /\ pendingFrames' = pendingFrames
              /\ animationFrameId' = "live"
              /\ \E delta \in DeltaInputs(s, frameCount + 1) :
                   /\ accumulator' = accumulator + delta
                   /\ inLoop' = LoopGoesOn(accumulator + delta, alive)
  /\ UNCHANGED <<isRunning, isPaused, pc, i, now, playerVars, ledgerVars, directorVars,
                 enemies, enemyProjectiles, frameCount, probe>>

\* Game.update(): player.update(), then EnemyManager.update() up to the enemy loop.
GameUpdate(s) ==
  /\ isRunning
  /\ pc = "idle" /\ inLoop
  /\ accumulator >= FrameTime
  /\ frameCount < s.limit
  /\ LET f == frameCount + 1 IN
     \E dt \in ClockInputs(s, f), shooting \in ShootInputs(s, f),
        t \in SpawnTypeInputs(s, f) :
       LET P1 == PlayerShoot(PlayerState, shooting) IN
       \E leave \in LeaveInputs(s, f, P1.projectiles) :
         LET P2 == IF alive
                     THEN PlayerGrace([P1 EXCEPT !.projectiles = @ - leave])
                     ELSE PlayerState
             D == DifficultyStep(SpawnStep(BossTimerStep(Director), t))
         IN /\ now' = now + dt
            /\ frameCount' = f
            /\ SetPlayer(P2)
            /\ SetDirector(D)
            /\ pc' = "enemies"
            /\ i' = Len(D.enemies)
            /\ UNCHANGED <<isRunning, ledgerVars, enemyProjectiles, loopVars, probe>>

\* A hit that leaves the projectile in flight.
ProjectileKept(n) == n

\* Player.checkProjectileCollision(), line 508: the projectile that hit is removed.
ProjectileSpent(n) == n - 1

\* A hit that costs two health points.
TakeHitTwice(e, t) == [e EXCEPT !.health = @ - 2, !.lastHitTime = t]

\* update(), lines 88-92: a multi-hit enemy takes one hit at clock reading t.
TakeHit(e, t) == [e EXCEPT !.health = @ - 1, !.lastHitTime = t]

\* update(), line 150: the health of a multi-hit enemy is used up.
Depleted(e) == e.health <= 0

\* A destroyEnemy that leaves the boss flag alone.
DestroyedKeepsFlag(e, flag) == flag

\* destroyEnemy(enemy, index): the flag, the ledger, the splice.
DestroyedBossActive(e, flag) == IF e.isBoss THEN FALSE ELSE flag

\* An off-screen cleanup that registers a kill.
RemovedScores(L, e) == UpdateScore(L, e)

\* The off-screen cleanup of update(), lines 160-173: no statement of it
\* writes a ledger field.
RemovedLedger(L, e) == L

\* An off-screen cleanup that leaves the boss flag alone.
RemovedKeepsFlag(e, flag) == flag

\* The off-screen cleanup of update(), lines 160-173.
RemovedBossActive(e, flag) == IF e.isBoss THEN FALSE ELSE flag

\* One iteration of the enemy loop of update(), lines 63-174, for enemies[i].
EnemyStep(s) ==
  /\ pc = "enemies"
  /\ i >= 1
  /\ LET e == enemies[i]
         f == frameCount
     IN \E fired \in FireInputs(s, f, e, alive), collide \in CollideInputs(s, f),
           overlap \in OverlapInputs(s, f), off \in OffInputs(s, f) :
          LET dies == collide /\ CanBeHit(PlayerState)
              hit == ~Throttled(e, now) /\ projectiles > 0 /\ overlap
              multi == e.health # 0
              e1 == TakeHit(e, now)
              destroyed == hit /\ (IF multi THEN Depleted(e1) ELSE TRUE)
              L1 == IF hit /\ multi THEN HitScore(Ledger) ELSE Ledger
              L2 == IF destroyed
                      THEN UpdateScore(L1, IF multi THEN e1 ELSE e)
                      ELSE L1
          IN /\ enemyProjectiles' = enemyProjectiles + fired
             /\ alive' = IF dies THEN FALSE ELSE alive
             /\ projectiles' = IF hit THEN ProjectileSpent(projectiles) ELSE projectiles
             /\ SetLedger(IF ~hit /\ off THEN RemovedLedger(L2, e) ELSE L2)
             /\ enemies' = IF destroyed THEN Splice(enemies, i)
                           ELSE IF hit THEN [enemies EXCEPT ![i] = e1]
                           ELSE IF off THEN Splice(enemies, i)
                           ELSE enemies
             /\ bossActive' = IF destroyed THEN DestroyedBossActive(e, bossActive)
                              ELSE IF ~hit /\ off THEN RemovedBossActive(e, bossActive)
                              ELSE bossActive
             /\ i' = i - 1
             /\ UNCHANGED <<isRunning, pc, now, invulnerable, invulnerableTimer,
                            shootCooldown, spawnTimer, spawnRate, difficultyTimer,
                            maxEnemies, bossTimer, frameCount, loopVars, probe>>

\* The rest of update(): updateProjectiles(), then the ledger timers; back in
\* gameLoop(), accumulator -= frameTime.  With less than a frame time left and
\* the player alive the call of gameLoop ends here.
EndUpdate(s) ==
  /\ pc = "enemies"
  /\ i = 0
  /\ \E struck \in ShotHitInputs(s, frameCount) :
       LET dies == struck /\ enemyProjectiles > 0 /\ CanBeHit(PlayerState)
           rest == enemyProjectiles - (IF dies THEN 1 ELSE 0)
       IN \E leave \in ShotLeaveInputs(s, frameCount, rest) :
            /\ alive' = IF dies THEN FALSE ELSE alive
            /\ enemyProjectiles' = rest - leave
            /\ inLoop' = LoopGoesOn(accumulator - FrameTime, ~dies /\ alive)
  /\ SetLedger(MultiplierTick(ComboTick(Ledger)))
  /\ accumulator' = accumulator - FrameTime
  /\ pc' = "idle"
  /\ UNCHANGED <<isRunning, i, now, invulnerable, invulnerableTimer, shootCooldown,
                 projectiles, directorVars, enemies, frameCount, isPaused,
                 pendingFrames, animationFrameId, probe>>

---------------------------------------------------------------------------
(* Bounds of the sessions *)

MaxShots     == 1     \* enemy projectiles in flight in a free tick
OpeningFrom  == 119   \* first free tick of the opening session
OpeningTicks == 5     \* free ticks of the opening session

---------------------------------------------------------------------------
(* Spec: the opening of a game.  The first 118 ticks after the start are   *)
(* quiet (no enemy exists before tick 120); from tick 119 on every input   *)
(* is free: the first enemy spawns, is shot, touches the player, leaves;   *)
(* the player dies, quits, starts again.                                   *)

Opening ==
  [free  |-> Interval(OpeningFrom, OpeningFrom + OpeningTicks),
   shoot |-> {}, hit |-> {}, stock |-> 0, shots |-> MaxShots, off |-> {}, lag |-> {FrameTime},
   limit |-> OpeningFrom + OpeningTicks]

Next ==
  \/ StartGame(Opening)
  \/ QuitToMenu(Opening)
  \/ GameOver(Opening)
  \/ GameUpdate(Opening)
  \/ EnemyStep(Opening)
  \/ EndUpdate(Opening)
  \/ GameLoop(Opening)

Spec == Init /\ [][Next]_vars

---------------------------------------------------------------------------
(* SpecStreak: a long streak.  Nobody is shot for 1555 ticks, so thirteen  *)
(* enemies are on the field; the player has fired ten projectiles during   *)
(* the 80 ticks before, and in tick StreakVolley each of them meets an     *)
(* enemy: ten kills in one tick.  Two more enemies spawn (ticks 1674 and   *)
(* 1793) while the player fires five more projectiles, and from tick       *)
(* StreakFrom on every input is free.                                      *)

StreakVolley == 1556
StreakFrom   == 1793
StreakTicks  == 0

Streak ==
  [free  |-> Interval(StreakFrom, StreakFrom + StreakTicks),
   shoot |-> Interval(StreakVolley - 10 * ShootDelay, StreakVolley - 1)
               \cup Interval(StreakFrom - 5 * ShootDelay, StreakFrom - 1),
   hit   |-> {StreakVolley},
   stock |-> 10, shots |-> MaxShots, off |-> {}, lag |-> {FrameTime},
   limit |-> StreakFrom + StreakTicks]

NextStreak ==
  \/ StartGame(Streak)
  \/ QuitToMenu(Streak)
  \/ GameOver(Streak)
  \/ GameUpdate(Streak)
  \/ EnemyStep(Streak)
  \/ EndUpdate(Streak)
  \/ GameLoop(Streak)

SpecStreak == Init /\ [][NextStreak]_vars

---------------------------------------------------------------------------
(* SpecDecay: a streak of exactly five.  Nobody is shot at for 687 ticks; *)
(* for the 33 ticks up to DecayVolley the fire button is held and every    *)
(* projectile meets the newest enemy in the tick it is fired, so five      *)
(* kills fall ShootDelay ticks apart, the fifth in tick DecayVolley.  The  *)
(* DecayTicks + 1 ticks from the end of the cooldown on are free (a sixth  *)
(* kill, or none); then the session is quiet until the multiplier of the   *)
(* latest kill has run out.                                                *)

DecayVolley == 720
DecayTicks  == 0

Decay ==
  [free  |-> Interval(DecayVolley + ShootDelay, DecayVolley + ShootDelay + DecayTicks),
   shoot |-> Interval(DecayVolley - 4 * ShootDelay, DecayVolley),
   hit   |-> Interval(DecayVolley - 4 * ShootDelay, DecayVolley),
   stock |-> 5, shots |-> MaxShots, off |-> {}, lag |-> {FrameTime},
   limit |-> DecayVolley + ShootDelay + DecayTicks + MultiplierWindow]

NextDecay ==
  \/ StartGame(Decay)
  \/ QuitToMenu(Decay)
  \/ GameOver(Decay)
  \/ GameUpdate(Decay)
  \/ EnemyStep(Decay)
  \/ EndUpdate(Decay)
  \/ GameLoop(Decay)

SpecDecay == Init /\ [][NextDecay]_vars

---------------------------------------------------------------------------
(* SpecBoss: a boss fight.  Three volleys of five (ticks 600, 1198, 1793)  *)
(* clear the field before the boss arrives in tick 1800.  From then on the *)
(* fire button is held and, for BossHitTicks ticks, every projectile meets *)
(* the enemy processed first; the shots after that stay in flight.  From   *)
(* tick BossFrom on every input is free.                                   *)

BossVolley1  == 600
BossVolley2  == 1198
BossVolley3  == 1793
BossHitTicks == 152
BossFrom     == 1969
BossTicks    == 2

Boss ==
  [free  |-> Interval(BossFrom, BossFrom + BossTicks),
   shoot |-> Interval(BossVolley1 - 5 * ShootDelay, BossVolley1 - 1)
               \cup Interval(BossVolley2 - 5 * ShootDelay, BossVolley2 - 1)
               \cup Interval(BossVolley3 - 5 * ShootDelay, BossVolley3 - 1)
               \cup Interval(BossSpawnThreshold + 1, BossFrom - 1),
   hit   |-> {BossVolley1, BossVolley2, BossVolley3}
               \cup Interval(BossSpawnThreshold + 1, BossSpawnThreshold + BossHitTicks),
   stock |-> 5, shots |-> MaxShots, off |-> {}, lag |-> {FrameTime},
   limit |-> BossFrom + BossTicks]

NextBoss ==
  \/ StartGame(Boss)
  \/ QuitToMenu(Boss)
  \/ GameOver(Boss)
  \/ GameUpdate(Boss)
  \/ EnemyStep(Boss)
  \/ EndUpdate(Boss)
  \/ GameLoop(Boss)

SpecBoss == Init /\ [][NextBoss]_vars

---------------------------------------------------------------------------
(* SpecMarathon: a run long enough for the spawn rate to reach its floor.  *)
(* The window is kept so small that every enemy is beyond the cleanup      *)
(* margin in the tick it appears, so nothing is on the field until the     *)
(* last 60 scripted ticks; the player never fires.  The difficulty step of *)
(* tick 90000 takes spawnRate from 31 to 30; the ticks around the step of  *)
(* tick 91000 are free.                                                    *)

MarathonFrom  == 90999
MarathonTicks == 2

Marathon ==
  [free  |-> Interval(MarathonFrom, MarathonFrom + MarathonTicks),
   shoot |-> {}, hit |-> {}, stock |-> 0, shots |-> MaxShots,
   off   |-> Interval(1, MarathonFrom - 2 * MinSpawnRate), lag |-> {FrameTime},
   limit |-> MarathonFrom + MarathonTicks]

NextMarathon ==
  \/ StartGame(Marathon)
  \/ QuitToMenu(Marathon)
  \/ GameOver(Marathon)
  \/ GameUpdate(Marathon)
  \/ EnemyStep(Marathon)
  \/ EndUpdate(Marathon)
  \/ GameLoop(Marathon)

SpecMarathon == Init /\ [][NextMarathon]_vars

---------------------------------------------------------------------------
(* SpecLoop: frames and the pause menu.  In the ticks around the first     *)
(* spawn the frame callbacks come early, on time or late, and the player   *)
(* opens and leaves the pause menu between them.                           *)

LoopFrom  == 119
LoopTicks == 2

\* Elapsed times of a frame callback, in thirds of a millisecond: none, less
\* than a frame time, one frame time, more than two.
LagInputs == {0, 20, FrameTime, 2 * FrameTime + 10}

Loop ==
  [free  |-> Interval(LoopFrom, LoopFrom + LoopTicks),
   shoot |-> {}, hit |-> {}, stock |-> 0, shots |-> MaxShots, off |-> {}, lag |-> LagInputs,
   limit |-> LoopFrom + LoopTicks]

NextLoop ==
  \/ StartGame(Loop)
  \/ QuitToMenu(Loop)
  \/ GameOver(Loop)
  \/ PauseGame(Loop)
  \/ ResumeGame(Loop)
  \/ GameLoop(Loop)
  \/ GameUpdate(Loop)
  \/ EnemyStep(Loop)
  \/ EndUpdate(Loop)

SpecLoop == Init /\ [][NextLoop]_vars

---------------------------------------------------------------------------
(* SpecRestart: SpecLoop with a restart button that works as soon as the   *)
(* game is over.  restartGame() is the click handler of a button of the    *)
(* game-over screen; gameOver() shows that screen from a 1500 ms timer, and *)
(* nothing in Game ties the handler to the frame request that the last     *)
(* gameLoop call left pending.                                             *)

\* restartGame(), lines 178-186: the statements of startGame(), after a game over.
RestartGame(s) ==
  /\ ~isRunning /\ ~alive
  /\ pc = "idle" /\ ~inLoop
  /\ isRunning' = TRUE
  /\ isPaused' = FALSE
  /\ SetPlayer(PlayerReset(PlayerState))
  /\ SetDirector(ResetDirector(Director))
  /\ SetLedger(ResetLedger)
  /\ enemyProjectiles' = 0
  /\ RequestFrame
  /\ inLoop' = LoopGoesOn(accumulator, TRUE)
  /\ UNCHANGED <<pc, i, now, frameCount, accumulator, probe>>

NextRestart ==
  \/ StartGame(Loop)
  \/ RestartGame(Loop)
  \/ QuitToMenu(Loop)
  \/ GameOver(Loop)
  \/ PauseGame(Loop)
  \/ ResumeGame(Loop)
  \/ GameLoop(Loop)
  \/ GameUpdate(Loop)
  \/ EnemyStep(Loop)
  \/ EndUpdate(Loop)

SpecRestart == Init /\ [][NextRestart]_vars

---------------------------------------------------------------------------
(* SpecLapse: the end of a streak.  The five kills of SpecDecay, the last  *)
(* in tick DecayVolley; then nothing happens until the combo timer is at   *)
(* its last tick.  That tick and the LapseTicks after it are free: a kill  *)
(* in the first continues the streak, a kill in the second starts a new    *)
(* one.  The session goes on until the latest streak has lapsed.           *)

LapseTicks == 1

LapseFrom == DecayVolley + ComboWindow - 1

Lapse ==
  [free  |-> Interval(LapseFrom, LapseFrom + LapseTicks),
   shoot |-> Interval(DecayVolley - 4 * ShootDelay, DecayVolley),
   hit   |-> Interval(DecayVolley - 4 * ShootDelay, DecayVolley),
   stock |-> 5, shots |-> MaxShots, off |-> {}, lag |-> {FrameTime},
   limit |-> LapseFrom + LapseTicks + ComboWindow]

NextLapse ==
  \/ StartGame(Lapse)
  \/ QuitToMenu(Lapse)
  \/ GameOver(Lapse)
  \/ GameUpdate(Lapse)
  \/ EnemyStep(Lapse)
  \/ EndUpdate(Lapse)
  \/ GameLoop(Lapse)

SpecLapse == Init /\ [][NextLapse]_vars

---------------------------------------------------------------------------
(* SpecRematch: from one boss to the next.  Every other enemy is beyond    *)
(* the cleanup margin in the tick it appears.  The boss arrives in tick    *)
(* 1800 and holds the field; from tick RematchFrom on every input is free  *)
(* for RematchTicks + 1 ticks (the boss is hit, leaves, kills the player,  *)
(* the player quits and starts again), and in the tick after those the     *)
(* boss, if still there, is beyond the margin too.  The session goes on    *)
(* for another 1800 ticks.                                                 *)

RematchFrom  == 1900
RematchTicks == 0

RematchLeave == RematchFrom + RematchTicks + 1

Rematch ==
  [free  |-> Interval(RematchFrom, RematchFrom + RematchTicks),
   shoot |-> {}, hit |-> {}, stock |-> 0, shots |-> MaxShots,
   off   |-> Interval(1, BossSpawnThreshold - 1)
               \cup Interval(RematchLeave, RematchLeave + BossSpawnThreshold),
   lag   |-> {FrameTime},
   limit |-> RematchLeave + BossSpawnThreshold]

NextRematch ==
  \/ StartGame(Rematch)
  \/ QuitToMenu(Rematch)
  \/ GameOver(Rematch)
  \/ GameUpdate(Rematch)
  \/ EnemyStep(Rematch)
  \/ EndUpdate(Rematch)
  \/ GameLoop(Rematch)

SpecRematch == Init /\ [][NextRematch]_vars

---------------------------------------------------------------------------
(* Kinematics of one enemy.  The specifications below follow a single      *)
(* enemy through its own update(); the rest of the game stands still.      *)
(* Lengths and speeds are fixed-point numbers, Scale units to 1, and every *)
(* multiplication, division and square root is rounded to the nearest      *)
(* unit, as each floating-point operation of the code is rounded to the    *)
(* nearest representable number.                                           *)

Scale == 50

\* a / b rounded to the nearest integer (b > 0)
RoundDiv(a, b) ==
  IF a >= 0 THEN (2 * a + b) \div (2 * b) ELSE -((2 * (-a) + b) \div (2 * b))

\* Math.sqrt(n) rounded to the nearest integer
RoundSqrt(n) ==
  CHOOSE r \in 0..(n + 1) :
    /\ r = 0 \/ (2 * r - 1) * (2 * r - 1) <= 4 * n
    /\ 4 * n < (2 * r + 1) * (2 * r + 1)

\* The game variables, which an enemy's own update() does not touch.
gameStill ==
  <<gameVars, playerVars, ledgerVars, directorVars, enemies, enemyProjectiles, loopVars>>

gameState == <<gameStill, frameCount>>

\* createSeeker: speed: random(1, 2), velocity (0, 0)
SeekerSpeeds == {Scale, (3 * Scale) \div 2 - 2, 2 * Scale}

CreateSeeker(speed) == [type |-> "seeker", speed |-> speed, vx |-> 0, vy |-> 0]

\* 0.1 * (cos, sin) of the direction to the player, for the eight compass
\* directions: 0.1 is Scale / 10 units, 0.1 * cos(45 deg) is 0.0707.
SeekerPush ==
  LET a == Scale \div 10
      d == RoundDiv(707 * Scale, 10000)
  IN {<<a, 0>>, <<-a, 0>>, <<0, a>>, <<0, -a>>,
      <<d, d>>, <<d, -d>>, <<-d, d>>, <<-d, -d>>}

\* A seeker update that limits the speed to twice the maximum.
SeekerUpdateLoose(e, push) ==
  LET ax == e.vx + push[1]
      ay == e.vy + push[2]
      currentSpeed == RoundSqrt(ax * ax + ay * ay)
  IN IF currentSpeed > 2 * e.speed
       THEN [e EXCEPT !.vx = RoundDiv(RoundDiv(ax * Scale, currentSpeed) * 2 * e.speed, Scale),
                      !.vy = RoundDiv(RoundDiv(ay * Scale, currentSpeed) * 2 * e.speed, Scale)]
       ELSE [e EXCEPT !.vx = ax, !.vy = ay]

\* The seeker's update(), lines 715-741: accelerate toward the player, then
\* limit the speed.
SeekerUpdate(e, push) ==
  LET ax == e.vx + push[1]
      ay == e.vy + push[2]
      currentSpeed == RoundSqrt(ax * ax + ay * ay)
  IN IF currentSpeed > e.speed
       THEN [e EXCEPT !.vx = RoundDiv(RoundDiv(ax * Scale, currentSpeed) * e.speed, Scale),
                      !.vy = RoundDiv(RoundDiv(ay * Scale, currentSpeed) * e.speed, Scale)]
       ELSE [e EXCEPT !.vx = ax, !.vy = ay]

\* spawn() picks a seeker.
SpawnSeeker ==
  /\ probe = NoProbe
  /\ \E speed \in SeekerSpeeds : probe' = CreateSeeker(speed)
  /\ UNCHANGED gameState

\* One tick of the seeker, the player anywhere around it.
SeekerTick ==
  /\ probe.type = "seeker"
  /\ \E push \in SeekerPush : probe' = SeekerUpdate(probe, push)
  /\ UNCHANGED gameState

NextSeeker == SpawnSeeker \/ SeekerTick

SpecSeeker == Init /\ [][NextSeeker]_vars

---------------------------------------------------------------------------
(* Wanderer.  The canvas is the browser window's inner size. *)

CanvasWidth == 200
CanvasHeight == 600
SpawnMargin == 50
CleanupMargin == 100
MinInterval == 60

\* The four sides of spawn(), each with one position along the edge, 3 off
\* the corner.
SpawnPositions ==
  {<<(CanvasWidth - 3) * Scale, -SpawnMargin * Scale>>,
   <<(CanvasWidth + SpawnMargin) * Scale, (CanvasHeight - 3) * Scale>>,
   <<3 * Scale, (CanvasHeight + SpawnMargin) * Scale>>,
   <<-SpawnMargin * Scale, 3 * Scale>>}

\* random(-1, 1) twice: the axes, two diagonals, and both components zero
WandererVelocities ==
  LET a == (3 * Scale) \div 5
      b == (4 * Scale) \div 5
  IN {<<-Scale, 0>>, <<Scale, 0>>, <<0, -Scale>>, <<0, Scale>>, <<a, b>>, <<-b, -a>>, <<0, 0>>}

\* speed: random(0.5, 1.5)
WandererSpeeds == {Scale \div 2, (3 * Scale) \div 2 - 1}

\* directionChangeInterval: randomInt(60, 120), an even and an odd one
WandererIntervals == {MinInterval, MinInterval + 1}

CreateWanderer(position, velocity, speed, interval) ==
  [type |-> "wanderer", x |-> position[1], y |-> position[2],
   vx |-> velocity[1], vy |-> velocity[2], speed |-> speed,
   directionTimer |-> 0, directionChangeInterval |-> interval]

\* "Normalize and scale velocity", lines 792-801
WandererVelocity(v, speed) ==
  LET magnitude == RoundSqrt(v[1] * v[1] + v[2] * v[2])
  IN IF magnitude > 0
       THEN <<RoundDiv(RoundDiv(v[1] * Scale, magnitude) * speed, Scale),
              RoundDiv(RoundDiv(v[2] * Scale, magnitude) * speed, Scale)>>
       ELSE v

\* A bounce that only knows the edge at 0.
BounceLowOnly(position, limit, velocity) ==
  IF position < 0 THEN -velocity ELSE velocity

\* "Bounce off edges", lines 806-813: one axis
Bounce(position, limit, velocity) ==
  IF position < 0 \/ position > limit THEN -velocity ELSE velocity

\* The wanderer's update(), lines 782-813; velocity and interval are the random
\* draws, used when the direction changes.
WandererUpdate(e, velocity, interval) ==
  LET timer == e.directionTimer + 1
      change == timer >= e.directionChangeInterval
      v == WandererVelocity(IF change THEN velocity ELSE <<e.vx, e.vy>>, e.speed)
      x == e.x + v[1]
      y == e.y + v[2]
  IN [e EXCEPT !.directionTimer = IF change THEN 0 ELSE timer,
               !.directionChangeInterval = IF change THEN interval ELSE @,
               !.x = x,
               !.y = y,
               !.vx = Bounce(x, CanvasWidth * Scale, v[1]),
               !.vy = Bounce(y, CanvasHeight * Scale, v[2])]

\* "Remove if off screen by a large margin", lines 160-166
OffScreen(e) ==
  \/ e.x < -CleanupMargin * Scale
  \/ e.x > (CanvasWidth + CleanupMargin) * Scale
  \/ e.y < -CleanupMargin * Scale
  \/ e.y > (CanvasHeight + CleanupMargin) * Scale

\* spawn() picks a wanderer.
SpawnWanderer(positions, velocities, speeds, intervals) ==
  /\ probe = NoProbe
  /\ \E position \in positions, velocity \in velocities, speed \in speeds, interval \in intervals :
       probe' = CreateWanderer(position, velocity, speed, interval)

\* The wanderer's part of one tick: its update(), then the off-screen cleanup.
WandererStep(velocities, intervals) ==
  /\ probe.type = "wanderer"
  /\ \E velocity \in velocities, interval \in intervals :
       LET e == WandererUpdate(probe, velocity, interval)
       IN probe' = IF OffScreen(e) THEN NoProbe ELSE e

\* The first WanderTicks frames of a wanderer, with every draw.
WanderTicks == 64

SpawnAny ==
  /\ SpawnWanderer(SpawnPositions, WandererVelocities, WandererSpeeds, WandererIntervals)
  /\ UNCHANGED gameState

WandererTick ==
  /\ frameCount < WanderTicks
  /\ WandererStep(WandererVelocities, WandererIntervals)
  /\ frameCount' = frameCount + 1
  /\ UNCHANGED gameStill

NextWanderer == SpawnAny \/ WandererTick

SpecWanderer == Init /\ [][NextWanderer]_vars

\* A wanderer spawned at the left edge that only ever draws horizontal
\* directions, followed for as long as it lives.
StrayPositions == {<<-SpawnMargin * Scale, (CanvasHeight \div 2) * Scale>>}
StrayVelocities == {<<-Scale, 0>>, <<Scale, 0>>}
StraySpeeds == {(3 * Scale) \div 2 - 1}

SpawnStray ==
  /\ SpawnWanderer(StrayPositions, StrayVelocities, StraySpeeds, WandererIntervals)
  /\ UNCHANGED gameState

StrayTick ==
  /\ WandererStep(StrayVelocities, WandererIntervals)
  /\ UNCHANGED gameState

NextStray == SpawnStray \/ StrayTick

SpecStray == Init /\ [][NextStray]_vars

---------------------------------------------------------------------------
(* Boss.  Its height and its attack phases; the x axis plays no part in    *)
(* them.                                                                   *)

BossSpawnHeight == 100
BossSize == 45
PhaseLength == 180

\* speed: 1.5
BossSpeed == (3 * Scale) \div 2

\* targetY = canvas.height / 4
TargetY == (CanvasHeight * Scale) \div 4

\* spawnBoss() / createBoss(): 100 above the canvas, attackPhase 0, phaseTimer 0
BossShip ==
  [type |-> "boss", y |-> -BossSpawnHeight * Scale, attackPhase |-> 0, phaseTimer |-> 0]

\* sin(phaseTimer * 0.05) * speed in the circular pattern: down, level, up
SineInputs == {-BossSpeed, 0, BossSpeed}

Abs(n) == IF n >= 0 THEN n ELSE -n

\* The boss's update(), lines 1108-1165, as far as y and the phases go; sine is
\* the vertical velocity of the circular pattern in this tick.
BossUpdate(e, sine) ==
  IF e.y < TargetY
    THEN [e EXCEPT !.y = @ + BossSpeed]
    ELSE LET timer == e.phaseTimer + 1
             turn == timer > PhaseLength
             phase == IF turn THEN (e.attackPhase + 1) % 4 ELSE e.attackPhase
             vy == IF phase = 2 THEN sine ELSE 0
             low == e.y < BossSize * Scale
             high == ~low /\ e.y > (CanvasHeight * Scale) \div 2
         IN [e EXCEPT !.attackPhase = phase,
                      !.phaseTimer = IF turn THEN 0 ELSE timer,
                      !.y = IF low THEN BossSize * Scale + Abs(vy)
                            ELSE IF high THEN (CanvasHeight * Scale) \div 2 - Abs(vy)
                            ELSE @ + vy]

SpawnBossShip ==
  /\ probe = NoProbe
  /\ probe' = BossShip
  /\ UNCHANGED gameState

BossTick ==
  /\ probe.type = "boss"
  /\ \E sine \in SineInputs : probe' = BossUpdate(probe, sine)
  /\ UNCHANGED gameState

NextPhases == SpawnBossShip \/ BossTick

SpecPhases == Init /\ [][NextPhases]_vars

---------------------------------------------------------------------------
(* Boss attacks.  The boss's health, attack phase and shot timer, and the  *)
(* number of enemy projectiles in flight.  The phase timer is not          *)
(* followed: in any tick the phase stays or moves on.  An angle is kept as *)
(* the code builds it: aimed at the player plus spread * 0.2 rad, or       *)
(* part / 15 of a full turn.                                               *)

InitialShotDelay == 20
BurstShotDelay == 120
SpreadShotDelay == 40
BasicShotDelay == 40
MinShotDelay == 10
BurstCount == 15

\* Enemy projectiles in flight at most.
MaxInFlight == 15

\* createBoss(): health 20 of 20, attackPhase 0, shotTimer 0, shotDelay 20
BossGuns ==
  [type |-> "guns", health |-> BossHealth, attackPhase |-> 0, shotTimer |-> 0,
   shotDelay |-> InitialShotDelay]

\* healthPercent < 0.3, healthPercent < 0.6 with healthPercent = health / maxHealth
LowHealth(e) == 10 * e.health < 3 * BossHealth
MidHealth(e) == 10 * e.health < 6 * BossHealth

AimedShot(spread) == [aimed |-> TRUE, part |-> 0, spread |-> spread]
RadialShot(part) == [aimed |-> FALSE, part |-> part, spread |-> 0]

\* A ladder that looks at the health only.
BossVolleyAnyPhase(e) ==
  IF LowHealth(e)
    THEN [k \in 1..BurstCount |-> RadialShot(k - 1)]
  ELSE IF MidHealth(e)
    THEN [k \in 1..3 |-> AimedShot(k - 2)]
  ELSE <<AimedShot(0)>>

\* update(), lines 1181-1212, and fireCircleAttack: the projectiles of an attack
BossVolley(e) ==
  IF LowHealth(e) /\ e.attackPhase = 3
    THEN [k \in 1..BurstCount |-> RadialShot(k - 1)]
  ELSE IF MidHealth(e) /\ e.attackPhase = 3
    THEN [k \in 1..3 |-> AimedShot(k - 2)]
  ELSE <<AimedShot(0)>>

\* A basic delay that does not look at the health.
BossShotDelayFlat(e) ==
  IF LowHealth(e) /\ e.attackPhase = 3 THEN BurstShotDelay
  ELSE IF MidHealth(e) /\ e.attackPhase = 3 THEN SpreadShotDelay
  ELSE BasicShotDelay

\* A basic delay with a floor of 5.
BossShotDelayFloor5(e) ==
  IF LowHealth(e) /\ e.attackPhase = 3 THEN BurstShotDelay
  ELSE IF MidHealth(e) /\ e.attackPhase = 3 THEN SpreadShotDelay
  ELSE Max(5, (BasicShotDelay * e.health) \div BossHealth)

\* update(), lines 1184, 1200, 1214: the delay an attack sets
BossShotDelay(e) ==
  IF LowHealth(e) /\ e.attackPhase = 3 THEN BurstShotDelay
  ELSE IF MidHealth(e) /\ e.attackPhase = 3 THEN SpreadShotDelay
  ELSE Max(MinShotDelay, (BasicShotDelay * e.health) \div BossHealth)

\* boss.shotTimer++; if (boss.shotTimer >= boss.shotDelay)
ShotReady(e) == e.shotTimer + 1 >= e.shotDelay

\* update(), lines 1176-1216
BossAttack(e) ==
  IF ShotReady(e)
    THEN [e EXCEPT !.shotTimer = 0, !.shotDelay = BossShotDelay(e)]
    ELSE [e EXCEPT !.shotTimer = @ + 1]

SpawnBossGuns ==
  /\ probe = NoProbe
  /\ probe' = BossGuns
  /\ UNCHANGED gameState

\* The boss's update(): the phase, then the attack.
GunsTick ==
  /\ probe.type = "guns"
  /\ \E phase \in {probe.attackPhase, (probe.attackPhase + 1) % 4} :
       LET e == [probe EXCEPT !.attackPhase = phase]
           volley == IF ShotReady(e) THEN BossVolley(e) ELSE <<>>
       IN /\ enemyProjectiles + Len(volley) <= MaxInFlight
          /\ probe' = BossAttack(e)
          /\ enemyProjectiles' = enemyProjectiles + Len(volley)
  /\ UNCHANGED <<gameVars, playerVars, ledgerVars, directorVars, enemies, loopVars, frameCount>>

\* update(), lines 88-92 and 150-152: an accepted hit on the boss
GunsHit ==
  /\ probe.type = "guns"
  /\ probe' = IF probe.health - 1 <= 0 THEN NoProbe ELSE [probe EXCEPT !.health = @ - 1]
  /\ UNCHANGED gameState

\* updateProjectiles(), lines 229-236: projectiles leave the screen
ProjectilesLeave ==
  /\ probe.type = "guns"
  /\ \E k \in 1..enemyProjectiles : enemyProjectiles' = enemyProjectiles - k
  /\ UNCHANGED <<gameVars, playerVars, ledgerVars, directorVars, enemies, loopVars, frameCount,
                 probe>>

NextGuns == SpawnBossGuns \/ GunsTick \/ GunsHit \/ ProjectilesLeave

SpecGuns == Init /\ [][NextGuns]_vars

---------------------------------------------------------------------------
(* SpecCrowd: a full field.  Nobody is shot and nothing leaves, so in tick *)
(* 2502 the list (the boss of tick 1800 included) is as long as maxEnemies *)
(* allows, 22.  The one projectile fired in tick CrowdHit - 1 destroys the  *)
(* enemy processed first in tick CrowdHit; in tick CrowdOff every enemy is *)
(* beyond the cleanup margin; the ticks from CrowdFrom on, around the next *)
(* spawn, are free.                                                        *)

CrowdHit   == 2650
CrowdOff   == 2700
CrowdFrom  == 2768
CrowdTicks == 2

Crowd ==
  [free  |-> Interval(CrowdFrom, CrowdFrom + CrowdTicks),
   shoot |-> {CrowdHit - 1}, hit |-> {CrowdHit}, stock |-> 1, shots |-> MaxShots,
   off   |-> {CrowdOff}, lag |-> {FrameTime},
   limit |-> CrowdFrom + CrowdTicks]

NextCrowd ==
  \/ StartGame(Crowd)
  \/ QuitToMenu(Crowd)
  \/ GameOver(Crowd)
  \/ GameUpdate(Crowd)
  \/ EnemyStep(Crowd)
  \/ EndUpdate(Crowd)
  \/ GameLoop(Crowd)

SpecCrowd == Init /\ [][NextCrowd]_vars

---------------------------------------------------------------------------
(* SpecSiege: a second boss at a full field.  Nothing leaves; from the     *)
(* arrival of the first boss in tick 1800 the fire button is held and every *)
(* projectile meets the enemy processed first, for SiegeHitTicks ticks, so *)
(* the boss is destroyed in tick 1961 and the next one is due in tick 3761. *)
(* The regular enemies fill the list up to maxEnemies (23) before that.    *)
(* In tick SiegeOff every enemy is beyond the cleanup margin; the ticks    *)
(* from SiegeFrom on are free.                                             *)

SiegeHitTicks == 161
SiegeOff      == 3770
SiegeFrom     == 3771
SiegeTicks    == 2

Siege ==
  [free  |-> Interval(SiegeFrom, SiegeFrom + SiegeTicks),
   shoot |-> Interval(BossSpawnThreshold + 1, BossSpawnThreshold + SiegeHitTicks),
   hit   |-> Interval(BossSpawnThreshold + 1, BossSpawnThreshold + SiegeHitTicks),
   stock |-> 5, shots |-> MaxShots,
   off   |-> {SiegeOff}, lag |-> {FrameTime},
   limit |-> SiegeFrom + SiegeTicks]

NextSiege ==
  \/ StartGame(Siege)
  \/ QuitToMenu(Siege)
  \/ GameOver(Siege)
  \/ GameUpdate(Siege)
  \/ EnemyStep(Siege)
  \/ EndUpdate(Siege)
  \/ GameLoop(Siege)

SpecSiege == Init /\ [][NextSiege]_vars

---------------------------------------------------------------------------
(* SpecSweep: the two reverse loops of update(), element by element.  An   *)
(* enemy or an enemy projectile is an object (id) and the number of times  *)
(* its position was advanced (moves); probe holds the two arrays, the loop *)
(* that runs (loop) and its index (k).  Whether an enemy touches the       *)
(* player, is shot, fires or has left the canvas, and whether a projectile *)
(* is within reach of the player or out of the canvas, are inputs.         *)

MaxSwept   == 3     \* most objects in either array
SweepTicks == 3     \* ticks of a sweep session

\* An object identity that no element of the array has.
FreshId(list) ==
  LET unused == {n \in 1..(Len(list) + 1) : \A j \in DOMAIN list : list[j].id # n}
  IN CHOOSE n \in unused : \A m \in unused : n <= m

\* spawn(), line 698, and fireProjectile, line 262: push a new object.
Pushed(list) == Append(list, [id |-> FreshId(list), moves |-> 0])

\* enemy.update() at line 67, projectile.position.add at line 202.
Moved(list, k) == [list EXCEPT ![k].moves = @ + 1]

\* A projectile that strikes whoever it overlaps.
ShotStruckWhenDead(P, struck) == struck /\ ~P.invulnerable

\* updateProjectiles(), lines 215-221: the player is hit by the projectile.
ShotStruck(P, struck) == CanBeHit(P) /\ struck

SweepStart ==
  /\ probe = NoProbe
  /\ probe' = [type |-> "sweep", enemies |-> <<>>, enemyProjectiles |-> <<>>,
               loop |-> "none", k |-> 0]
  /\ UNCHANGED gameState

\* update() up to the enemy loop: frameCount++, spawn() when the timer says so.
SweepBegin ==
  /\ probe.type = "sweep" /\ probe.loop = "none"
  /\ alive
  /\ frameCount < SweepTicks
  /\ frameCount' = frameCount + 1
  /\ \E spawned \in {b \in BOOLEAN : b => Len(probe.enemies) < MaxSwept} :
       LET es == IF spawned THEN Pushed(probe.enemies) ELSE probe.enemies
       IN probe' = [probe EXCEPT !.enemies = es, !.loop = "enemies", !.k = Len(es)]
  /\ UNCHANGED gameStill

\* One iteration of the enemy loop, lines 63-174, for enemies[k].
SweepEnemy ==
  /\ probe.type = "sweep" /\ probe.loop = "enemies"
  /\ probe.k >= 1
  /\ \E fired \in {b \in BOOLEAN : b => Len(probe.enemyProjectiles) < MaxSwept},
        collide \in BOOLEAN, hit \in BOOLEAN, off \in BOOLEAN :
       LET moved == Moved(probe.enemies, probe.k)
       IN /\ alive' = IF collide /\ CanBeHit(PlayerState) THEN FALSE ELSE alive
          /\ probe' = [probe EXCEPT
                         !.enemies = IF hit \/ off THEN Splice(moved, probe.k) ELSE moved,
                         !.enemyProjectiles = IF fired THEN Pushed(@) ELSE @,
                         !.k = @ - 1]
  /\ UNCHANGED <<gameVars, invulnerable, invulnerableTimer, shootCooldown, projectiles,
                 ledgerVars, directorVars, enemies, enemyProjectiles, loopVars, frameCount>>

\* The enemy loop ends at i < 0; updateProjectiles() begins, line 198.
SweepTurn ==
  /\ probe.type = "sweep" /\ probe.loop = "enemies"
  /\ probe.k = 0
  /\ probe' = [probe EXCEPT !.loop = "shots", !.k = Len(probe.enemyProjectiles)]
  /\ UNCHANGED gameState

\* One iteration of the loop of updateProjectiles(), lines 198-237, for
\* enemyProjectiles[k].
SweepShot ==
  /\ probe.type = "sweep" /\ probe.loop = "shots"
  /\ probe.k >= 1
  /\ \E struck \in BOOLEAN, off \in BOOLEAN :
       LET moved == Moved(probe.enemyProjectiles, probe.k)
           dies == ShotStruck(PlayerState, struck)
       IN /\ alive' = IF dies THEN FALSE ELSE alive
          /\ probe' = [probe EXCEPT
                         !.enemyProjectiles = IF dies \/ off THEN Splice(moved, probe.k)
                                              ELSE moved,
                         !.k = @ - 1]
  /\ UNCHANGED <<gameVars, invulnerable, invulnerableTimer, shootCooldown, projectiles,
                 ledgerVars, directorVars, enemies, enemyProjectiles, loopVars, frameCount>>

\* The loop of updateProjectiles() ends at i < 0.
SweepEnd ==
  /\ probe.type = "sweep" /\ probe.loop = "shots"
  /\ probe.k = 0
  /\ probe' = [probe EXCEPT !.loop = "none"]
  /\ UNCHANGED gameState

NextSweep == SweepStart \/ SweepBegin \/ SweepEnemy \/ SweepTurn \/ SweepShot \/ SweepEnd

SpecSweep == Init /\ [][NextSweep]_vars

---------------------------------------------------------------------------
(* SpecSpinner and SpecShooter: the guns of one spinner and of one seeker. *)
(* probe holds the shoot timer, the delay and the burst counter.  When the *)
(* player dies, the enemies still to be processed in that tick and the     *)
(* ticks that the gameLoop call has left to run have their update() with   *)
(* the player dead; then the game is over until it is started again, which *)
(* empties the list.                                                       *)

SpinnerDelayMin == 60
SpinnerDelayMax == 120
BurstSize       == 3
BurstDelay      == 10
SeekerDelayMin  == 100
SeekerDelayMax  == 160
MaxWait         == 165    \* longest wait of a seeker out of range that is followed
MaxGunShots     == 4      \* most enemy projectiles in flight

\* randomInt(60, 120) and randomInt(100, 160): the ends and one value between.
SpinnerDelays == {SpinnerDelayMin, SpinnerDelayMin + 1, SpinnerDelayMax}
SeekerDelays  == {SeekerDelayMin, SeekerDelayMin + 1, SeekerDelayMax}

\* createSpinner(), lines 857-861
CreateSpinnerGun(delay) ==
  [type |-> "spinnergun", shootTimer |-> 0, shootDelay |-> delay, burstCount |-> 0]

\* A burst that counts its first shot twice.
SpinnerFireLongBurst(e, playerAlive, delay) ==
  LET t == e.shootTimer + 1 IN
  IF e.burstCount > 0 /\ t >= BurstDelay
    THEN [e |-> [e EXCEPT !.burstCount = @ - 1, !.shootTimer = 0], fired |-> 1]
  ELSE IF e.burstCount = 0 /\ t >= e.shootDelay /\ playerAlive
    THEN [e |-> [e EXCEPT !.burstCount = BurstSize, !.shootTimer = 0,
                          !.shootDelay = delay],
          fired |-> 1]
  ELSE [e |-> [e EXCEPT !.shootTimer = t], fired |-> 0]

\* The spinner's update(), lines 902-921: the shoot timer and the burst.
\* delay is what randomInt(60, 120) returns if it is called.
SpinnerFire(e, playerAlive, delay) ==
  LET t == e.shootTimer + 1 IN
  IF e.burstCount > 0 /\ t >= BurstDelay
    THEN [e |-> [e EXCEPT !.burstCount = @ - 1, !.shootTimer = 0], fired |-> 1]
  ELSE IF e.burstCount = 0 /\ t >= e.shootDelay /\ playerAlive
    THEN [e |-> [e EXCEPT !.burstCount = BurstSize - 1, !.shootTimer = 0,
                          !.shootDelay = delay],
          fired |-> 1]
  ELSE [e |-> [e EXCEPT !.shootTimer = t], fired |-> 0]

\* spawn() picks a spinner.
SpawnSpinnerGun ==
  /\ probe = NoProbe
  /\ alive
  /\ \E delay \in SpinnerDelays : probe' = CreateSpinnerGun(delay)
  /\ UNCHANGED gameState

\* The spinner's update() in one tick.
SpinnerGunTick ==
  /\ probe.type = "spinnergun"
  /\ probe.shootTimer < MaxWait
  /\ \E delay \in SpinnerDelays :
       LET r == SpinnerFire(probe, alive, delay)
       IN /\ enemyProjectiles + r.fired <= MaxGunShots
          /\ probe' = r.e
          /\ enemyProjectiles' = enemyProjectiles + r.fired
  /\ UNCHANGED <<gameVars, playerVars, ledgerVars, directorVars, enemies, loopVars,
                 frameCount>>

\* Player.die(), called from the enemy loop (line 81) or from
\* updateProjectiles() (line 222).
GunPlayerDies ==
  /\ probe.type \in {"spinnergun", "seekergun"}
  /\ alive
  /\ alive' = FALSE
  /\ UNCHANGED <<gameVars, invulnerable, invulnerableTimer, shootCooldown, projectiles,
                 ledgerVars, directorVars, enemies, enemyProjectiles, loopVars, frameCount,
                 probe>>

\* The enemy is destroyed or leaves the field (update(), lines 86-173).
GunRemoved ==
  /\ probe.type \in {"spinnergun", "seekergun"}
  /\ probe' = NoProbe
  /\ UNCHANGED gameState

\* updateProjectiles(), lines 229-236: enemy projectiles leave the screen.
GunShotsLeave ==
  /\ probe.type \in {"spinnergun", "seekergun"}
  /\ \E k \in 1..enemyProjectiles : enemyProjectiles' = enemyProjectiles - k
  /\ UNCHANGED <<gameVars, playerVars, ledgerVars, directorVars, enemies, loopVars, frameCount,
                 probe>>

\* startGame() / restartGame() after the death: Player.reset(), EnemyManager.reset().
GunRestart ==
  /\ ~alive
  /\ alive' = TRUE
  /\ probe' = NoProbe
  /\ enemyProjectiles' = 0
  /\ UNCHANGED <<gameVars, invulnerable, invulnerableTimer, shootCooldown, projectiles,
                 ledgerVars, directorVars, enemies, loopVars, frameCount>>

NextSpinner ==
  SpawnSpinnerGun \/ SpinnerGunTick \/ GunPlayerDies \/ GunRemoved \/ GunShotsLeave \/ GunRestart

SpecSpinner == Init /\ [][NextSpinner]_vars

\* createSeeker(), lines 711-712.  inRange keeps the last distanceToPlayer < 400
\* that update() computed.
CreateSeekerGun(delay) ==
  [type |-> "seekergun", shootTimer |-> 0, shootDelay |-> delay, inRange |-> FALSE]

\* A seeker that fires from any distance.
SeekerFireAnyRange(e, inRange, playerAlive, delay) ==
  LET t == e.shootTimer + 1 IN
  IF t >= e.shootDelay /\ playerAlive
    THEN [e |-> [e EXCEPT !.shootTimer = 0, !.shootDelay = delay, !.inRange = inRange],
          fired |-> 1]
    ELSE [e |-> [e EXCEPT !.shootTimer = t, !.inRange = inRange], fired |-> 0]

\* The seeker's update(), lines 743-761: inRange is distanceToPlayer < 400,
\* delay is what randomInt(100, 160) returns if it is called.
SeekerFire(e, inRange, playerAlive, delay) ==
  LET t == e.shootTimer + 1 IN
  IF t >= e.shootDelay /\ inRange /\ playerAlive
    THEN [e |-> [e EXCEPT !.shootTimer = 0, !.shootDelay = delay, !.inRange = inRange],
          fired |-> 1]
    ELSE [e |-> [e EXCEPT !.shootTimer = t, !.inRange = inRange], fired |-> 0]

\* spawn() picks a seeker.
SpawnSeekerGun ==
  /\ probe = NoProbe
  /\ alive
  /\ \E delay \in SeekerDelays : probe' = CreateSeekerGun(delay)
  /\ UNCHANGED gameState

\* The seeker's update() in one tick, near the player or far.
SeekerGunTick ==
  /\ probe.type = "seekergun"
  /\ probe.shootTimer < MaxWait
  /\ \E inRange \in BOOLEAN, delay \in SeekerDelays :
       LET r == SeekerFire(probe, inRange, alive, delay)
       IN /\ enemyProjectiles + r.fired <= MaxGunShots
          /\ probe' = r.e
          /\ enemyProjectiles' = enemyProjectiles + r.fired
  /\ UNCHANGED <<gameVars, playerVars, ledgerVars, directorVars, enemies, loopVars,
                 frameCount>>

NextShooter ==
  SpawnSeekerGun \/ SeekerGunTick \/ GunPlayerDies \/ GunRemoved \/ GunShotsLeave \/ GunRestart

SpecShooter == Init /\ [][NextShooter]_vars

---------------------------------------------------------------------------
(* Vocabulary of the properties *)

\* A step of the enemy loop: one enemy, enemies[i], is processed.
LoopStep == pc = "enemies" /\ pc' = "enemies"

\* A step of the enemy loop in which a player projectile is consumed by enemies[i].
ProjectileHit == LoopStep /\ projectiles' = projectiles - 1

\* A step in which updateScore ran (nothing else increments combo).
Kill == combo' = combo + 1

\* The step of startGame() / restartGame(): resetGame() runs.
ResetStep == ~isRunning /\ isRunning'

\* The tail of update() in which the multiplier timer runs out.
ExpiryStep == pc = "enemies" /\ pc' = "idle" /\ multiplierTimer' = 0

\* The head of a tick: update() begins, frameCount++.
TickStep == pc = "idle" /\ pc' = "enemies"

\* The tail of a tick: updateProjectiles() and the ledger timers.
TailStep == pc = "enemies" /\ pc' = "idle"

\* A tick whose difficulty timer wraps: increaseDifficulty() runs.
DifficultyTrigger == TickStep /\ difficultyTimer' = 0

\* Positions of the boss in a list of enemies.
BossAt(es) == {k \in DOMAIN es : es[k].isBoss}

\* Ticks since the last reset(), before the first difficulty step.
TicksSinceReset == difficultyTimer

---------------------------------------------------------------------------
(* Score ledger: SpecStreak *)

\* C1: in every state the multiplier is 1, 2 or 4 and the combo is an integer >= 0.
C1_MultiplierAndComboRange ==
  scoreMultiplier \in {1, 2, 4} /\ combo \in Nat

\* The streak of ten has put the multiplier at its top tier.
C1_Witness == scoreMultiplier = 4 /\ combo >= ComboTier4 /\ frameCount >= StreakVolley

\* C2, as claimed: no step lowers the multiplier except the tail of update() in
\* which multiplierTimer reaches 0 (and the reset of a new run); a kill never does.
C2_OnlyExpiryLowersMultiplier ==
  [][scoreMultiplier' < scoreMultiplier
       => \/ ExpiryStep /\ scoreMultiplier' = 1
          \/ ResetStep]_vars

\* C3: a player projectile that meets the non-boss enemy enemies[i] removes that
\* entry and no other (the list is one shorter, every other enemy is kept in
\* order) and adds enemy.value times the multiplier before the kill to the score.
C3_KillRemovesOneAndScores ==
  [][(ProjectileHit /\ ~enemies[i].isBoss)
       => /\ Len(enemies') = Len(enemies) - 1
          /\ \A k \in 1..(i - 1) : enemies'[k] = enemies[k]
          /\ \A k \in (i + 1)..Len(enemies) : enemies'[k - 1] = enemies[k]
          /\ score' = score + enemies[i].value * scoreMultiplier]_vars

\* Inside the loop, right after a kill at position i + 1 that had enemies on both
\* sides, under a multiplier above 1.
C3_Witness ==
  /\ pc = "enemies"
  /\ comboTimer = ComboWindow
  /\ 1 <= i /\ i < Len(enemies)
  /\ scoreMultiplier > 1
  /\ frameCount >= StreakFrom

\* C7: after reset(), getScore() is 0 and getCombo() is combo 0, multiplier 1.
C7_ResetClearsLedger ==
  [][ResetStep => /\ GetScore' = 0
                  /\ GetCombo' = [combo |-> 0, multiplier |-> 1]]_vars

\* A run started after the streak: its predecessor had scored and held a multiplier.
C7_Witness ==
  /\ isRunning /\ pc = "idle"
  /\ frameCount >= StreakFrom
  /\ score = 0 /\ combo = 0 /\ scoreMultiplier = 1

\* C8, as claimed: reset() puts every piece of combat state back to its value in
\* a freshly constructed EnemyManager, the population cap maxEnemies included.
C8_ResetRestoresEverything ==
  [][ResetStep => /\ enemies' = <<>> /\ enemyProjectiles' = 0
                  /\ spawnTimer' = 0 /\ spawnRate' = InitialSpawnRate
                  /\ difficultyTimer' = 0 /\ maxEnemies' = InitialMaxEnemies
                  /\ score' = 0 /\ scoreMultiplier' = 1 /\ combo' = 0
                  /\ comboTimer' = 0 /\ multiplierTimer' = 0
                  /\ ~bossActive' /\ bossTimer' = BossSpawnThreshold]_vars

---------------------------------------------------------------------------
(* Grace period: Spec *)

\* C6, as claimed: during the 120 ticks after Player.reset() nothing sets
\* player.alive to false.
C6_GraceLasts120Ticks ==
  (isRunning /\ spawnRate = InitialSpawnRate /\ TicksSinceReset <= InvulnerableTicks)
    => alive

---------------------------------------------------------------------------
(* Multiplier decay: SpecDecay *)

\* What the five kills of the session are worth: the enemies spawned in ticks
\* 240, 360, 480, 600 and 720, each at multiplier 1.
DecayScore ==
  TypeValue(EnemyTypes[ScriptType(2 * InitialSpawnRate)])
  + TypeValue(EnemyTypes[ScriptType(3 * InitialSpawnRate)])
  + TypeValue(EnemyTypes[ScriptType(4 * InitialSpawnRate)])
  + TypeValue(EnemyTypes[ScriptType(5 * InitialSpawnRate)])
  + TypeValue(EnemyTypes[ScriptType(6 * InitialSpawnRate)])

\* C10: the fifth kill of a streak begun at combo 0, multiplier 1 sets the
\* multiplier to 2 with 300 ticks to run; with no further kill the multiplier is
\* 2 up to and including the enemy loop of the 300th tick (the tick of the fifth
\* kill counted) and 1 from the tail of that tick on; a sixth kill leaves the
\* multiplier at 2 and puts comboTimer back to 120.
C10_FiveKillStreak ==
  [][/\ (Kill /\ combo = ComboTier2 - 1 /\ scoreMultiplier = 1)
          => scoreMultiplier' = 2 /\ multiplierTimer' = MultiplierWindow
     /\ score' = DecayScore
          => scoreMultiplier' =
               IF \/ frameCount' < DecayVolley + MultiplierWindow - 1
                  \/ frameCount' = DecayVolley + MultiplierWindow - 1 /\ pc' = "enemies"
                 THEN 2 ELSE 1
     /\ (Kill /\ combo = ComboTier2 /\ scoreMultiplier = 2)
          => scoreMultiplier' = 2 /\ comboTimer' = ComboWindow]_vars

\* No sixth kill: the multiplier is back at 1 at the end of the 300th tick.
C10_Witness ==
  /\ score = DecayScore
  /\ pc = "idle"
  /\ frameCount = DecayVolley + MultiplierWindow - 1
  /\ scoreMultiplier = 1

---------------------------------------------------------------------------
(* Boss fight: SpecBoss *)

\* C4: a boss in the list has between 1 and 20 health; it enters with 20; an
\* accepted hit takes exactly 1 and no other step changes its health; the hit
\* that takes it from 1 to 0 removes it, and no earlier hit does.
C4_BossHealth ==
  [][/\ \A k \in BossAt(enemies') : enemies'[k].health \in 1..BossHealth
     /\ (BossAt(enemies) = {} /\ isRunning)
          => \A k \in BossAt(enemies') : enemies'[k].health = BossHealth
     /\ \A k \in BossAt(enemies) :
          IF ProjectileHit /\ i = k
            THEN IF enemies[k].health = 1
                   THEN BossAt(enemies') = {} /\ Len(enemies') = Len(enemies) - 1
                   ELSE /\ k \in BossAt(enemies')
                        /\ enemies'[k].health = enemies[k].health - 1
            ELSE \A j \in BossAt(enemies') : enemies'[j].health = enemies[k].health]_vars

\* Inside the loop, right after the hit that destroyed the boss.
C4_Witness ==
  /\ pc = "enemies"
  /\ frameCount >= BossFrom
  /\ comboTimer = ComboWindow
  /\ BossAt(enemies) = {} /\ ~bossActive

\* C5: an accepted hit on a boss with health 1 destroys it in that step: the boss
\* leaves the list, bossActive becomes false, combo grows by 1 and the score
\* grows by the hit's 50 points plus 1000 times the multiplier before the kill.
C5_LastHitDestroysBoss ==
  [][\A k \in BossAt(enemies) :
       (ProjectileHit /\ i = k /\ enemies[k].health = 1)
         => /\ BossAt(enemies') = {}
            /\ ~bossActive'
            /\ combo' = combo + 1
            /\ score' - (score + HitPoints) = BossValue * scoreMultiplier]_vars

\* The end of a tick of the free window in which the boss was destroyed while a
\* multiplier above 1 was in effect.
C5_Witness ==
  /\ pc = "idle" /\ isRunning
  /\ frameCount >= BossFrom
  /\ comboTimer = ComboWindow - 1
  /\ BossAt(enemies) = {} /\ ~bossActive
  /\ scoreMultiplier > 1

\* C9: at the end of every tick and after reset() at most one enemy is a boss and
\* bossActive is true exactly when one is in the list.
C9_BossFlagIsDerived ==
  pc = "idle" => /\ Cardinality(BossAt(enemies)) <= 1
                 /\ bossActive <=> BossAt(enemies) # {}

\* The boss has left the field unhurt in the free window and the run goes on: the
\* flag is down and the boss timer is running again.
C9_Witness ==
  /\ pc = "idle" /\ isRunning
  /\ frameCount >= BossFrom
  /\ score > 0
  /\ combo < 2
  /\ ~bossActive /\ BossAt(enemies) = {}
  /\ bossTimer < BossSpawnThreshold

---------------------------------------------------------------------------
(* Spawn director: SpecMarathon *)

\* C11: spawnRate is 120 after construction and after reset(); it changes in no
\* step but a reset and a difficulty trigger; the trigger is the 1000th tick
\* since the last trigger or reset (every tick that is a multiple of 1000 while
\* the first run lasts); a trigger takes exactly 1 while the rate is above 30 and
\* nothing at 30; the rate is never below 30.
C11_SpawnRate ==
  [][/\ frameCount = 0 => spawnRate = InitialSpawnRate
     /\ ResetStep => spawnRate' = InitialSpawnRate
     /\ spawnRate' \in MinSpawnRate..InitialSpawnRate
     /\ spawnRate' # spawnRate => ResetStep \/ DifficultyTrigger
     /\ TickStep => (DifficultyTrigger <=> difficultyTimer = DifficultyInterval - 1)
     /\ (TickStep /\ frameCount' <= MarathonFrom)
          => (DifficultyTrigger <=> frameCount' % DifficultyInterval = 0)
     /\ DifficultyTrigger
          => spawnRate' = IF spawnRate > MinSpawnRate THEN spawnRate - 1 ELSE spawnRate]_vars

\* The 91st trigger of a run has just found the rate at its floor.
C11_Witness ==
  /\ spawnRate = MinSpawnRate
  /\ difficultyTimer = 0
  /\ pc = "enemies"
  /\ frameCount > (InitialSpawnRate - MinSpawnRate) * DifficultyInterval

---------------------------------------------------------------------------
(* Seeker: SpecSeeker *)

\* The square of the seeker's speed, exactly.
SpeedSquared(e) == e.vx * e.vx + e.vy * e.vy

---------------------------------------------------------------------------
(* Wanderer: SpecStray, SpecWanderer *)

\* C13: a wanderer spawned 50 outside an edge is never removed by the
\* off-screen cleanup, whatever directions it draws.
C13_WandererNeverLost ==
  [][probe.type = "wanderer" => probe'.type = "wanderer"]_vars

\* The wanderer's position is outside the canvas on the x axis, on the y axis.
OutsideX(e) == e.x < 0 \/ e.x > CanvasWidth * Scale
OutsideY(e) == e.y < 0 \/ e.y > CanvasHeight * Scale

\* C14: an update moves the wanderer by its velocity and by nothing else (no
\* wrap to the opposite edge); the x component of the velocity it leaves is the
\* one it moved by, with the sign flipped exactly when the new position is
\* outside [0, canvas.width], and likewise the y component with canvas.height.
C14_BounceFlipsOneAxis ==
  [][probe.type = "wanderer" /\ probe'.type = "wanderer"
       => LET wx == probe'.x - probe.x
              wy == probe'.y - probe.y
          IN /\ probe'.directionTimer # 0
                  => <<wx, wy>> = WandererVelocity(<<probe.vx, probe.vy>>, probe.speed)
             /\ wx * wx + wy * wy <= (probe.speed + 2) * (probe.speed + 2)
             /\ probe'.vx = IF OutsideX(probe') THEN -wx ELSE wx
             /\ probe'.vy = IF OutsideY(probe') THEN -wy ELSE wy]_vars

\* A wanderer moving diagonally has been updated to a position beyond the right
\* edge and inside on the y axis.
C14_Witness ==
  /\ probe.type = "wanderer"
  /\ probe.directionTimer > 0
  /\ probe.x > CanvasWidth * Scale
  /\ ~OutsideY(probe)
  /\ probe.vx # 0
  /\ probe.vy # 0

---------------------------------------------------------------------------
(* Game loop: SpecLoop *)

\* The time the loop has taken in: a frame time for every finished tick, and
\* the accumulator, from which the tick under way has not yet been deducted.
Accounted ==
  frameCount * FrameTime + accumulator - (IF pc = "enemies" THEN FrameTime ELSE 0)

\* C15: a call of gameLoop adds its delta (never negative) to the accumulator
\* once, runs a tick only with a whole frame time accumulated, deducts exactly
\* one frame time per tick, and returns with 0 <= accumulator < frameTime: the
\* ticks of the call are floor((accumulator before + delta) / frameTime).
C15_WholeFramesPerCall ==
  [][/\ ~inLoop => Accounted' >= Accounted
     /\ inLoop => Accounted' = Accounted
     /\ TickStep => inLoop /\ accumulator >= FrameTime
     /\ ~inLoop' => accumulator' >= 0 /\ accumulator' < FrameTime]_vars

\* A late frame: the call has run two ticks and returned.
C15_Witness ==
  /\ ~inLoop /\ pc = "idle" /\ isRunning
  /\ frameCount = LoopFrom + 1
  /\ accumulator = 10

\* The step of resumeGame()
ResumeStep == isPaused /\ ~isPaused' /\ isRunning'

\* C16: while the game is paused no tick begins and no frame request is
\* pending; the gameLoop call of resumeGame() adds nothing to the accumulator
\* and runs no tick, and leaves one frame request.
C16_PauseStopsTheLoop ==
  [][/\ isPaused => pendingFrames = 0 /\ ~inLoop /\ pc = "idle"
     /\ isPaused => frameCount' = frameCount
     /\ TickStep => ~isPaused
     /\ ResumeStep => /\ accumulator' = accumulator
                      /\ ~inLoop'
                      /\ pc' = "idle"
                      /\ pendingFrames' = 1]_vars

\* The game was paused with part of a frame time accumulated and has been
\* resumed.
C16_Witness ==
  /\ isRunning /\ ~isPaused /\ ~inLoop
  /\ accumulator = 40
  /\ frameCount = LoopFrom
  /\ pendingFrames = 1

---------------------------------------------------------------------------
(* Combo timer: SpecLapse *)

\* C17: the tick in which the combo timer reaches 0 sets combo to 0 and leaves
\* the multiplier and its timer as the multiplier-timer step alone leaves them.
C17_ExpiryLeavesMultiplier ==
  [][TailStep /\ combo > 0 /\ comboTimer' <= 0
       => /\ combo' = 0
          /\ scoreMultiplier' = MultiplierTick(Ledger).scoreMultiplier
          /\ multiplierTimer' = MultiplierTick(Ledger).multiplierTimer
          /\ score' = score]_vars

\* The streak of five has lapsed: no combo, the multiplier still 2 with the 180
\* ticks left of its 300.
C17_Witness ==
  /\ pc = "idle"
  /\ frameCount = LapseFrom
  /\ combo = 0 /\ comboTimer = 0
  /\ scoreMultiplier = 2
  /\ multiplierTimer = MultiplierWindow - ComboWindow

\* C18: a kill adds 1 to combo and sets comboTimer to 120; the tail of every
\* tick with a combo takes 1 off the timer and nothing else does, and combo
\* goes down only to 0, in the tail that takes the timer to 0 (or in a reset):
\* 120 ticks after the latest kill, its own tick counted.  In the session, the
\* streak of five of tick DecayVolley lasts through tick DecayVolley + 118 and
\* is gone at the end of tick DecayVolley + 119.
C18_ComboLapsesAfter120Ticks ==
  [][/\ Kill => comboTimer' = ComboWindow
     /\ combo' # combo => Kill \/ combo' = 0
     /\ combo' < combo => ResetStep \/ (TailStep /\ comboTimer' = 0)
     /\ (TailStep /\ combo > 0)
          => /\ comboTimer' = comboTimer - 1
             /\ combo' = IF comboTimer' = 0 THEN 0 ELSE combo
     /\ (comboTimer' # comboTimer) => Kill \/ ResetStep \/ (TailStep /\ combo > 0)
     /\ combo' > 0 => comboTimer' \in 1..ComboWindow
     /\ (pc' = "idle" /\ combo' = ComboTier2 /\ frameCount' >= DecayVolley)
          => comboTimer' = DecayVolley + ComboWindow - 1 - frameCount'
     /\ (pc' = "idle" /\ frameCount' >= DecayVolley + ComboWindow - 1)
          => combo' # ComboTier2]_vars

\* A sixth kill in the last tick of the streak of five has kept it going.
C18_Witness ==
  /\ pc = "enemies"
  /\ frameCount = LapseFrom
  /\ combo = ComboTier2 + 1
  /\ comboTimer = ComboWindow

---------------------------------------------------------------------------
(* Boss timer: SpecRematch *)

\* The head of a tick brings a boss.
BossArrives == TickStep /\ Cardinality(BossAt(enemies')) > Cardinality(BossAt(enemies))

\* C19: bossTimer changes only at the head of a tick that begins with no boss
\* active (minus 1, or from 1 back to 1800 with the boss spawned) and in a
\* reset (to 1800); with a boss active it is 1800 and stays, and no boss is
\* added.  So the boss arrives in the 1800th tick after the reset or after the
\* tick in which the previous boss was destroyed or removed: in the session,
\* in tick 1800 first, then 1800 ticks after a tick of the free window or the
\* scripted departure.
C19_BossEvery1800Ticks ==
  [][/\ bossTimer' \in 1..BossSpawnThreshold
     /\ bossActive' => bossTimer' = BossSpawnThreshold
     /\ Cardinality(BossAt(enemies')) <= 1
     /\ ResetStep => bossTimer' = BossSpawnThreshold /\ ~bossActive'
     /\ bossTimer' # bossTimer => ResetStep \/ (TickStep /\ ~bossActive)
     /\ (TickStep /\ bossActive) => ~BossArrives /\ bossActive'
     /\ (TickStep /\ ~bossActive)
          => IF bossTimer = 1
               THEN BossArrives /\ bossActive' /\ bossTimer' = BossSpawnThreshold
               ELSE ~BossArrives /\ ~bossActive' /\ bossTimer' = bossTimer - 1
     /\ (bossActive /\ ~bossActive' /\ ~ResetStep) => LoopStep /\ bossTimer' = BossSpawnThreshold
     /\ BossArrives
          => \/ frameCount' = BossSpawnThreshold
             \/ frameCount' - BossSpawnThreshold \in RematchFrom..RematchLeave]_vars

\* The second boss has arrived, 1800 ticks after the first left in tick
\* RematchLeave.
C19_Witness ==
  /\ pc = "enemies"
  /\ frameCount = RematchLeave + BossSpawnThreshold
  /\ bossActive
  /\ BossAt(enemies) # {}
  /\ isRunning

---------------------------------------------------------------------------
(* Boss phases: SpecPhases *)

\* A battle-phase tick of the boss: it is at or below the holding altitude.
BattleTick == probe.type = "boss" /\ probe'.type = "boss" /\ probe.y >= TargetY

\* C20: attackPhase is in 0..3; above the holding altitude the phase and its
\* timer stay as they are (0 and 0 from the spawn on); the phase changes only
\* to (phase + 1) mod 4, and when it changes it has lasted 180 battle ticks.
\* A phase other than 0 began in the tick of a change, which set its timer to
\* 0, so it has lasted phaseTimer + 1 ticks; phase 0 may also be the boss's
\* first, begun with the first battle tick, which took the timer to 1.
C20_PhasesLast180Ticks ==
  [][probe.type = "boss" /\ probe'.type = "boss"
       => /\ probe'.attackPhase \in 0..3
          /\ ~BattleTick => /\ probe'.attackPhase = probe.attackPhase
                            /\ probe'.phaseTimer = probe.phaseTimer
          /\ probe'.attackPhase # probe.attackPhase
               => /\ probe'.attackPhase = (probe.attackPhase + 1) % 4
                  /\ PhaseLength \in (IF probe.attackPhase = 0
                                        THEN {probe.phaseTimer, probe.phaseTimer + 1}
                                        ELSE {probe.phaseTimer + 1})]_vars

---------------------------------------------------------------------------
(* Boss attacks: SpecGuns *)

\* A tick of the boss: its shot timer moves.
GunsTickStep ==
  probe.type = "guns" /\ probe'.type = "guns" /\ probe'.shotTimer # probe.shotTimer

\* The boss as its attack finds it: the health before the tick, the phase of
\* the tick.
Attacker == [probe EXCEPT !.attackPhase = probe'.attackPhase]

\* C21: when the shot timer is ready the boss fires 15 projectiles at angles
\* k / 15 of a full turn if health / maxHealth < 0.3 in phase 3, else three
\* aimed at the player with offsets -0.2, 0, 0.2 rad if health / maxHealth <
\* 0.6 in phase 3, else one aimed at the player; when it is not ready, none.
C21_AttackLadder ==
  [][GunsTickStep
       => LET fired == enemyProjectiles' - enemyProjectiles
              third == 10 * probe.health < 3 * BossHealth /\ probe'.attackPhase = 3
              sixth == 10 * probe.health < 6 * BossHealth /\ probe'.attackPhase = 3
          IN IF probe.shotTimer + 1 >= probe.shotDelay
               THEN /\ probe'.shotTimer = 0
                    /\ third => /\ fired = 15
                                /\ BossVolley(Attacker) = [k \in 1..15 |-> RadialShot(k - 1)]
                    /\ (~third /\ sixth)
                         => /\ fired = 3
                            /\ BossVolley(Attacker) = <<AimedShot(-1), AimedShot(0), AimedShot(1)>>
                    /\ ~sixth => /\ fired = 1
                                 /\ BossVolley(Attacker) = <<AimedShot(0)>>
               ELSE fired = 0]_vars

\* The boss, below 30% health and in phase 3, has just fired the radial burst.
C21_Witness ==
  /\ probe.type = "guns"
  /\ probe.attackPhase = 3
  /\ probe.health = 5
  /\ probe.shotTimer = 0
  /\ probe.shotDelay = BurstShotDelay
  /\ enemyProjectiles = BurstCount

\* C22, as claimed, with the spawn as the earlier of the two moments: at any
\* health below the full 20 the shotDelay in force is at most the shotDelay in
\* force at full health.
C22_DelayShrinksWithHealth ==
  (probe.type = "guns" /\ probe.health < BossHealth) => probe.shotDelay <= InitialShotDelay

\* C22, amended: shotDelay changes only when the boss attacks.  A single shot
\* sets it to max(10, floor(40 * health / maxHealth)), which never grows as the
\* health goes down (compared for every two healths of the new boss's single
\* shot); the radial burst sets it to 120 and the spread to 40, whatever the
\* health, and the boss starts with 20.
C22_DelaySetByAttack ==
  [][probe'.type = "guns"
       => /\ probe.type # "guns"
               => /\ probe'.shotDelay = InitialShotDelay
                  /\ \A h1, h2 \in 1..BossHealth :
                       h1 <= h2 => BossShotDelay([probe' EXCEPT !.health = h1])
                                     <= BossShotDelay([probe' EXCEPT !.health = h2])
          /\ (probe.type = "guns" /\ ~GunsTickStep) => probe'.shotDelay = probe.shotDelay
          /\ (GunsTickStep /\ probe'.shotTimer # 0) => probe'.shotDelay = probe.shotDelay
          /\ (GunsTickStep /\ probe'.shotTimer = 0)
               => probe'.shotDelay =
                    IF LowHealth(probe) /\ probe'.attackPhase = 3 THEN BurstShotDelay
                    ELSE IF MidHealth(probe) /\ probe'.attackPhase = 3 THEN SpreadShotDelay
                    ELSE Max(MinShotDelay, (BasicShotDelay * probe.health) \div BossHealth)]_vars

\* A single shot at 8 of 20 health has set the delay to 16.
C22_Witness ==
  /\ probe.type = "guns"
  /\ probe.health = 8
  /\ probe.shotTimer = 0
  /\ probe.shotDelay = 16

\* C23: shotDelay is never below 10; the shot timer is 0 after an attack and
\* goes up by 1 per tick, and the boss attacks only with the timer at the
\* delay, so two attacks are at least 10 ticks apart.
C23_AttacksTenTicksApart ==
  [][probe'.type = "guns"
       => /\ probe'.shotDelay >= MinShotDelay
          /\ probe.type # "guns" => probe'.shotTimer = 0
          /\ GunsTickStep
               => IF enemyProjectiles' > enemyProjectiles
                    THEN probe.shotTimer + 1 >= MinShotDelay /\ probe'.shotTimer = 0
                    ELSE probe'.shotTimer = probe.shotTimer + 1
          /\ enemyProjectiles' > enemyProjectiles => GunsTickStep]_vars

\* An attack at 5 of 20 health or less has left the delay at its floor.
C23_Witness ==
  /\ probe.type = "guns"
  /\ probe.health <= 5
  /\ probe.shotTimer = 0
  /\ probe.shotDelay = MinShotDelay

---------------------------------------------------------------------------
(* Contact with an enemy: SpecStreak *)

\* C24: in a step of the enemy loop the player's life changes only from alive
\* to dead, and only when the player is alive and not invulnerable: then an
\* overlapping enemy kills, otherwise overlap or not makes no difference.  A
\* step in which no projectile is consumed and the list keeps its length, the
\* step of a fatal contact included, leaves every enemy, its health, the score
\* and the combo as they were.
C24_ContactKillsOnlyThePlayer ==
  [][LoopStep
       => /\ \A overlap \in BOOLEAN :
               (overlap /\ CanBeHit(PlayerState)) <=> (overlap /\ alive /\ ~invulnerable)
          /\ alive' # alive => alive /\ ~invulnerable /\ ~alive'
          /\ invulnerable' = invulnerable
          /\ (projectiles' = projectiles /\ Len(enemies') = Len(enemies))
               => /\ enemies' = enemies
                  /\ bossActive' = bossActive
                  /\ ledgerVars' = ledgerVars]_vars

\* An enemy has killed the player by contact in this tick, the loop has gone
\* on to a second enemy with the player dead, and both are still in the list.
C24_Witness ==
  /\ pc = "enemies"
  /\ isRunning /\ ~alive
  /\ frameCount >= StreakFrom
  /\ Len(enemies) - i >= 2

---------------------------------------------------------------------------
(* Enemy projectiles and the two loops: SpecSweep *)

\* An iteration of the loop of updateProjectiles().
ShotIteration ==
  probe.type = "sweep" /\ probe.loop = "shots" /\ probe'.loop = "shots"

\* An iteration of the enemy loop.
EnemyIteration ==
  probe.type = "sweep" /\ probe.loop = "enemies" /\ probe'.loop = "enemies"

\* C25: in an iteration of updateProjectiles() the projectile strikes exactly
\* when it is within reach and the player is alive and not invulnerable; the
\* player then dies and this projectile leaves the list in the same step.  A
\* dead player stays dead through the loop, and an iteration removes at most
\* the projectile it is at, so at most one projectile is used up by a hit on
\* the player in one tick.  (No enemy and no projectile exists while the
\* player is invulnerable, so only the guard speaks for that case.)
C25_ProjectileKillsOnce ==
  [][ShotIteration
       => /\ \A struck \in BOOLEAN :
               ShotStruck(PlayerState, struck) <=> (struck /\ alive /\ ~invulnerable)
          /\ (alive /\ ~alive')
               => /\ ~invulnerable
                  /\ Len(probe'.enemyProjectiles) = Len(probe.enemyProjectiles) - 1
                  /\ \A j \in 1..(probe.k - 1) :
                       probe'.enemyProjectiles[j] = probe.enemyProjectiles[j]
                  /\ \A j \in probe.k..Len(probe'.enemyProjectiles) :
                       probe'.enemyProjectiles[j] = probe.enemyProjectiles[j + 1]
          /\ ~alive => ~alive'
          /\ Len(probe'.enemyProjectiles) >= Len(probe.enemyProjectiles) - 1]_vars

\* The player has died in this tick, and the loop of updateProjectiles() has
\* passed a projectile that is still in the list.
C25_Witness ==
  /\ probe.type = "sweep" /\ probe.loop = "shots"
  /\ ~alive
  /\ probe.k < Len(probe.enemyProjectiles)

\* What one iteration at index k may do to its array: the elements below k
\* stay where they are, the element at k is advanced once and kept, or
\* removed so that the ones above move down by one.
OneIteration(old, new, k) ==
  /\ k \in 1..Len(old)
  /\ \A j \in 1..(k - 1) : new[j] = old[j]
  /\ \/ /\ Len(new) = Len(old)
        /\ new[k] = [id |-> old[k].id, moves |-> old[k].moves + 1]
        /\ \A j \in (k + 1)..Len(old) : new[j] = old[j]
     \/ /\ Len(new) = Len(old) - 1
        /\ \A j \in k..Len(new) : new[j] = old[j + 1]

\* C28: each loop starts at the last index of its array, every iteration is
\* at a valid index, handles the element there (advances it once, then keeps
\* or removes it), leaves the elements below it untouched and goes down by
\* one, and the loop ends only below the first index: every element present
\* at the start is updated and checked exactly once, whatever is removed.
C28_EveryElementOnce ==
  [][/\ EnemyIteration
          => /\ OneIteration(probe.enemies, probe'.enemies, probe.k)
             /\ probe'.k = probe.k - 1
             /\ SubSeq(probe'.enemyProjectiles, 1, Len(probe.enemyProjectiles))
                  = probe.enemyProjectiles
     /\ ShotIteration
          => /\ OneIteration(probe.enemyProjectiles, probe'.enemyProjectiles, probe.k)
             /\ probe'.k = probe.k - 1
             /\ probe'.enemies = probe.enemies
     /\ (probe.type = "sweep" /\ probe.loop = "none" /\ probe'.loop = "enemies")
          => probe'.k = Len(probe'.enemies)
     /\ (probe.type = "sweep" /\ probe.loop = "enemies" /\ probe'.loop = "shots")
          => /\ probe.k = 0
             /\ probe'.k = Len(probe'.enemyProjectiles)
             /\ probe'.enemies = probe.enemies
             /\ probe'.enemyProjectiles = probe.enemyProjectiles
     /\ (probe.type = "sweep" /\ probe.loop = "shots" /\ probe'.loop = "none")
          => probe.k = 0]_vars

\* Two ticks after its spawn the second enemy has been advanced twice and has
\* moved down to the first index because the first enemy was removed after
\* it in a loop; the same for the second projectile.
C28_Witness ==
  /\ probe.type = "sweep" /\ probe.loop = "none"
  /\ Len(probe.enemies) >= 1
  /\ probe.enemies[1] = [id |-> 2, moves |-> 2]
  /\ Len(probe.enemyProjectiles) >= 1
  /\ probe.enemyProjectiles[1].id = 2
  /\ probe.enemyProjectiles[1].moves >= 1

---------------------------------------------------------------------------
(* Player projectiles against enemies: SpecBoss *)

\* C26: an iteration of the enemy loop uses up no player projectile or one.
\* It uses one exactly when enemies[i] is damaged or destroyed by a hit: then
\* that enemy loses one health point or is destroyed with its kill
\* registered, and no other enemy changes.  The number of projectiles in
\* flight never goes below zero, so a projectile is used at most once.
C26_OneProjectilePerHit ==
  [][LoopStep
       => LET e == enemies[i]
              kept == Len(enemies') = Len(enemies)
              damaged == kept /\ enemies'[i].health # e.health
              spent == projectiles - projectiles'
          IN /\ i \in 1..Len(enemies)
             /\ spent \in {0, 1}
             /\ projectiles' >= 0
             /\ (damaged \/ score' # score) => spent = 1
             /\ spent = 1
                  => \/ damaged /\ enemies'[i].health = e.health - 1
                     \/ Len(enemies') = Len(enemies) - 1 /\ Kill
             /\ \A j \in 1..(i - 1) : enemies'[j] = enemies[j]
             /\ \A j \in (i + 1)..Len(enemies) :
                  enemies'[IF kept THEN j ELSE j - 1] = enemies[j]]_vars

\* In a free tick the boss has just taken a hit that it survived, with the
\* last projectile in flight.
C26_Witness ==
  /\ pc = "enemies"
  /\ frameCount >= BossFrom
  /\ projectiles = 0
  /\ \E k \in BossAt(enemies) :
       /\ k = i + 1
       /\ enemies[k].lastHitTime = now
       /\ enemies[k].health > 0

\* C27: while the clock reads less than 80 ms after the boss's last accepted
\* hit, an iteration of the enemy loop at the boss leaves the boss as it is,
\* uses up no player projectile and scores nothing; a boss that was never hit
\* (lastHitTime = 0) is not throttled.
C27_BossHitThrottle ==
  [][LoopStep
       => LET e == enemies[i] IN
          /\ (e.isBoss /\ e.lastHitTime # 0 /\ now < e.lastHitTime + ThrottleMs)
               => /\ projectiles' = projectiles
                  /\ ledgerVars' = ledgerVars
                  /\ Len(enemies') = Len(enemies) => enemies'[i] = e
          /\ (e.isBoss /\ e.lastHitTime = 0) => ~Throttled(e, now)]_vars

\* In a free tick the loop has passed the boss inside the 80 ms after a hit,
\* with a projectile in flight.
C27_Witness ==
  /\ pc = "enemies"
  /\ frameCount > BossFrom
  /\ projectiles > 0
  /\ \E k \in BossAt(enemies) :
       /\ k = i + 1
       /\ enemies[k].lastHitTime # 0
       /\ now - enemies[k].lastHitTime \in 1..(ThrottleMs - 1)

\* C30: a boss arrives with 20 health points; a hit on it that is accepted
\* takes one of them and adds exactly 50 to the score whatever the
\* multiplier is; short of the last one it leaves the combo, the multiplier
\* and their timers alone.  The hit that takes the last point destroys the
\* boss, which registers a kill and adds 1000 times the multiplier on top of
\* its own 50: twenty hits, so 20 * 50 + 1000 * m for a boss shot down from
\* full health under a multiplier m.
C30_BossHitScoresFifty ==
  [][/\ LoopStep
          => LET e == enemies[i]
                 bossHit == e.isBoss /\ projectiles' = projectiles - 1
                 killed == bossHit /\ Len(enemies') < Len(enemies)
             IN bossHit
                  => /\ score' = score + 50
                                   + (IF killed THEN 1000 * scoreMultiplier ELSE 0)
                     /\ killed <=> e.health = 1
                     /\ ~killed
                          => /\ enemies'[i].health = e.health - 1
                             /\ combo' = combo
                             /\ comboTimer' = comboTimer
                             /\ scoreMultiplier' = scoreMultiplier
                             /\ multiplierTimer' = multiplierTimer
                     /\ killed => combo' = combo + 1 /\ ~bossActive'
     /\ (TickStep /\ BossAt(enemies) = {})
          => \A k \in BossAt(enemies') : enemies'[k].health = 20]_vars

\* The boss arrived with 1550 points on the board and the multiplier at 2;
\* during the fight one seeker was shot (100 * 2) and the boss took eighteen
\* hits in the hit phase and the last two in the free ticks, in which
\* nothing else scored: 20 * 50 + 1000 * 2 points for the boss.
C30_Witness ==
  /\ pc = "enemies"
  /\ frameCount > BossFrom
  /\ ~bossActive
  /\ combo = 2
  /\ scoreMultiplier = 2
  /\ score = 1550 + SeekerValue * 2 + 20 * 50 + 1000 * 2

---------------------------------------------------------------------------
(* The spawn timer: SpecCrowd *)

\* The enemies of a list that are not bosses.
Regulars(es) == {k \in DOMAIN es : ~es[k].isBoss}

\* C29: the head of a tick adds no regular enemy or one, at the end of the
\* list.  It adds one exactly when the incremented spawnTimer has reached
\* spawnRate and the list (a boss that arrives in this tick included) is
\* shorter than maxEnemies; then spawnTimer is 0 afterwards, and otherwise it
\* is one more than before, at the cap too.  No other step of a running game
\* touches spawnTimer or makes the list longer.
C29_SpawnWhenDueAndBelowCap ==
  [][/\ TickStep
          => LET spawned == Cardinality(Regulars(enemies')) - Cardinality(Regulars(enemies))
                 due == spawnTimer + 1 >= spawnRate
                 room == Len(enemies') - spawned < maxEnemies
             IN /\ spawned \in {0, 1}
                /\ spawned = 1 <=> (due /\ room)
                /\ spawned = 1 => ~enemies'[Len(enemies')].isBoss
                /\ spawnTimer' = IF spawned = 1 THEN 0 ELSE spawnTimer + 1
     /\ (~TickStep /\ ~ResetStep)
          => /\ spawnTimer' = spawnTimer
             /\ Len(enemies') <= Len(enemies)]_vars

\* The timer had counted on to 148 at the cap, past a spawn rate of 118; in
\* tick CrowdHit one enemy was destroyed, and the head of the next tick has
\* filled the list again and restarted the timer.
C29_Witness ==
  /\ pc = "enemies"
  /\ frameCount = CrowdHit + 1
  /\ spawnTimer = 0
  /\ Len(enemies) = maxEnemies
  /\ i = Len(enemies)

---------------------------------------------------------------------------
(* The spinner's bursts: SpecSpinner *)

\* A tick of the spinner that is followed.
SpinnerStep ==
  probe.type = "spinnergun" /\ probe'.type = "spinnergun" /\ probe' # probe

\* C31: burstCount stays in 0..2.  A tick of the spinner fires no projectile
\* or one, and fires exactly when it sets shootTimer to 0.  With burstCount
\* at 0 it fires only when the incremented shootTimer has reached shootDelay,
\* which is in 60..120, and the player is alive; it then puts burstCount at 2
\* and draws the next delay from 60..120.  With burstCount above 0 the timer
\* never passes 10 and the spinner fires exactly when it reaches 10, taking
\* one off burstCount: three shots ten ticks apart, then at least 60 ticks.
C31_SpinnerBursts ==
  [][SpinnerStep
       => LET shot == enemyProjectiles' - enemyProjectiles IN
          /\ shot \in {0, 1}
          /\ probe'.burstCount \in 0..2
          /\ probe'.shootDelay \in 60..120
          /\ shot = 1 <=> probe'.shootTimer = 0
          /\ shot = 0 => /\ probe'.shootTimer = probe.shootTimer + 1
                         /\ probe'.burstCount = probe.burstCount
                         /\ probe'.shootDelay = probe.shootDelay
          /\ (shot = 1 /\ probe.burstCount = 0)
               => /\ probe.shootTimer + 1 >= probe.shootDelay
                  /\ probe.shootTimer + 1 >= 60
                  /\ alive
                  /\ probe'.burstCount = 2
          /\ probe.burstCount > 0
               => /\ probe.shootTimer + 1 <= 10
                  /\ shot = 1 <=> probe.shootTimer + 1 = 10
                  /\ shot = 1 => probe'.burstCount = probe.burstCount - 1]_vars

\* The third shot of a burst has just been fired: three projectiles are in
\* flight, the burst is over and the timer starts again.
C31_Witness ==
  /\ probe.type = "spinnergun"
  /\ probe.burstCount = 0
  /\ probe.shootTimer = 0
  /\ enemyProjectiles = 3
  /\ alive

---------------------------------------------------------------------------
(* The seeker's shots: SpecShooter *)

\* A tick of the seeker that is followed.
SeekerStep ==
  probe.type = "seekergun" /\ probe'.type = "seekergun" /\ probe' # probe

\* C32: a tick of the seeker fires no projectile or one, and fires exactly
\* when it sets shootTimer to 0.  It fires only when the incremented
\* shootTimer has reached shootDelay, which is in 100..160, and the seeker is
\* within range in this tick, and never with the player dead; so a shot
\* comes at least 100 ticks after the one before.  A tick without a shot
\* counts the timer up and keeps the delay.
C32_SeekerShots ==
  [][SeekerStep
       => LET shot == enemyProjectiles' - enemyProjectiles IN
          /\ shot \in {0, 1}
          /\ probe'.shootDelay \in 100..160
          /\ shot = 1 <=> probe'.shootTimer = 0
          /\ shot = 1 => /\ probe.shootTimer + 1 >= probe.shootDelay
                         /\ probe.shootTimer + 1 >= 100
                         /\ probe'.inRange
                         /\ alive
          /\ shot = 0 => /\ probe'.shootTimer = probe.shootTimer + 1
                         /\ probe'.shootDelay = probe.shootDelay]_vars

\* The seeker waited out of range beyond its delay and has just fired its
\* second shot, the first one still in flight.
C32_Witness ==
  /\ probe.type = "seekergun"
  /\ probe.shootTimer = 0
  /\ probe.inRange
  /\ enemyProjectiles = 2
  /\ alive

---------------------------------------------------------------------------
(* The off-screen cleanup and the ledger: SpecStreak *)

\* C33: an iteration of the enemy loop that removes enemies[i] without using
\* up a player projectile (the off-screen cleanup) leaves score, combo,
\* comboTimer, scoreMultiplier and multiplierTimer as they were; a kill is
\* registered (combo + 1) only in an iteration that uses up a projectile and
\* removes the enemy.
C33_CleanupLeavesLedger ==
  [][LoopStep
       => /\ (Len(enemies') < Len(enemies) /\ projectiles' = projectiles)
               => /\ score' = score
                  /\ combo' = combo
                  /\ comboTimer' = comboTimer
                  /\ scoreMultiplier' = scoreMultiplier
                  /\ multiplierTimer' = multiplierTimer
          /\ combo' # combo
               => /\ combo' = combo + 1
                  /\ projectiles' = projectiles - 1
                  /\ Len(enemies') = Len(enemies) - 1]_vars

\* The free tick began with five enemies, five projectiles in flight and 1550
\* points at multiplier 4: an enemy is gone, the projectiles and the ledger
\* are all still there.
C33_Witness ==
  /\ pc = "enemies"
  /\ frameCount = StreakFrom
  /\ Len(enemies) < 5
  /\ projectiles = 5
  /\ score = 1550 /\ combo = 0 /\ scoreMultiplier = 4

---------------------------------------------------------------------------
(* The population cap: SpecSiege *)

\* C34: between two ticks the list holds at most maxEnemies enemies that are
\* not bosses and at most maxEnemies + 1 enemies in all.  maxEnemies is in
\* 20..50 and changes only in a tick whose difficulty timer wraps, by exactly
\* one; increaseDifficulty adds one to any value below 50 and leaves 50.
C34_PopulationWithinCap ==
  [][/\ pc' = "idle"
          => /\ Cardinality(Regulars(enemies')) <= maxEnemies'
             /\ Len(enemies') <= maxEnemies' + 1
     /\ maxEnemies' \in 20..50
     /\ maxEnemies' # maxEnemies => DifficultyTrigger /\ maxEnemies' = maxEnemies + 1
     /\ DifficultyTrigger
          => /\ maxEnemies' = IF maxEnemies < 50 THEN maxEnemies + 1 ELSE maxEnemies
             /\ \A n \in 20..50 :
                  IncreaseDifficulty([Director EXCEPT !.maxEnemies = n]).maxEnemies
                    = IF n < 50 THEN n + 1 ELSE 50]_vars

\* The second boss has arrived at a full field: one enemy more than
\* maxEnemies at the end of the tick.
C34_Witness ==
  /\ pc = "idle"
  /\ isRunning
  /\ bossActive
  /\ Len(enemies) = maxEnemies + 1
  /\ Cardinality(Regulars(enemies)) = maxEnemies

---------------------------------------------------------------------------
(* The score only grows: SpecBoss *)

\* C35: no step other than reset() lowers the score; a step that registers a
\* kill, and an iteration of the enemy loop that uses up a player projectile
\* (a kill or a hit on the boss), raise it.
C35_ScoreNeverDecreases ==
  [][~ResetStep
       => /\ score' >= score
          /\ Kill => score' > score
          /\ ProjectileHit => score' > score]_vars

\* The boss fight reached its free ticks with 2650 points, and a hit or a
\* kill in them has added to that.
C35_Witness ==
  /\ isRunning
  /\ frameCount >= BossFrom
  /\ score > 2650

---------------------------------------------------------------------------
(* The ledger timers: SpecLapse *)

\* C36: comboTimer is always in 0..120 and multiplierTimer in 0..300; between
\* two ticks a combo above 0 has a comboTimer above 0 and a multiplier above
\* 1 has a multiplierTimer above 0.
C36_TimersMatchLedger ==
  /\ comboTimer \in 0..120
  /\ multiplierTimer \in 0..300
  /\ pc = "idle" => /\ combo > 0 => comboTimer > 0
                    /\ scoreMultiplier > 1 => multiplierTimer > 0

\* Between two ticks the combo is in its last tick (the next tick ends it
\* unless it brings a kill) while the multiplier has time left.
C36_Witness ==
  /\ pc = "idle"
  /\ isRunning
  /\ combo > 0 /\ comboTimer = 1
  /\ scoreMultiplier > 1 /\ multiplierTimer > 1

---------------------------------------------------------------------------
(* After the death: SpecLoop *)

\* C37: no tick begins with the player dead (update() runs again only after
\* a reset), and while the player is dead the score, the combo and the list
\* of enemies stay those of the tick of the death.
C37_NoTickAfterDeath ==
  [][/\ TickStep => alive
     /\ (~alive /\ pc = "idle" /\ ~ResetStep)
          => /\ score' = score
             /\ combo' = combo
             /\ enemies' = enemies]_vars

---------------------------------------------------------------------------
(* One game loop: SpecRestart *)

\* C38: whatever the order of startGame, pauseGame, resumeGame, quitToMenu,
\* game over, restartGame and the frame callbacks, at most one frame request
\* is pending.
C38_OneFramePending == pendingFrames <= 1

---------------------------------------------------------------------------
(* Guns and the dead player: SpecSpinner *)

\* C39: while the player is dead no step adds an enemy projectile.
C39_NoFireAtDeadPlayer ==
  [][~alive => enemyProjectiles' <= enemyProjectiles]_vars

---------------------------------------------------------------------------
(* SpecPrefilter: checkProjectileCollision() for the boss and one player   *)
(* projectile.  probe holds the projectile's offset from the boss centre   *)
(* in fixed-point units (Scale units to 1), the boss's lastHitTime and the *)
(* value returned.  Positions are floating-point numbers in the code       *)
(* (velocities come from cos and sin), so offsets are not whole pixels.    *)

ProjectileSize == 3
OffsetStep == 25
MaxOffset == 70
CheckTime == 1000

\* p.position - enemy.position on one axis: the grid of offsets explored
Offsets == {k * OffsetStep : k \in -((MaxOffset * Scale) \div OffsetStep)..((MaxOffset * Scale) \div OffsetStep)}

\* enemy.lastHitTime: never hit, hit inside the throttle window, hit at its edge
HitTimes == {0, CheckTime - ThrottleMs + 1, CheckTime - ThrottleMs}

\* circleCollision(x1, y1, r1, x2, y2, r2): the centres are closer than r1 + r2
CircleCollision(dx, dy, r1, r2) ==
  dx * dx + dy * dy < ((r1 + r2) * Scale) * ((r1 + r2) * Scale)

\* lines 474-482: approxDistance < extendedRange, with extendedRange = size * 1.5
InExtendedRange(dx, dy, size) == 2 * (Abs(dx) + Abs(dy)) < 3 * size * Scale

\* lines 476-486: anyInRange
AnyInRange(shots, size) ==
  \E k \in 1..Len(shots) : InExtendedRange(shots[k].dx, shots[k].dy, size)

\* checkProjectileCollision(enemy) at time t, shots being the player's
\* projectiles as offsets from the enemy: the value returned and the
\* projectiles left.
CheckProjectileCollision(enemy, t, shots) ==
  LET hits == {k \in 1..Len(shots) :
                 CircleCollision(shots[k].dx, shots[k].dy, ProjectileSize, enemy.size)}
      last == CHOOSE k \in hits : \A j \in hits : j <= k
  IN IF Throttled(enemy, t) THEN [hit |-> FALSE, shots |-> shots]
     ELSE IF enemy.isBoss /\ ~AnyInRange(shots, enemy.size)
       THEN [hit |-> FALSE, shots |-> shots]
     ELSE IF hits # {}
       THEN [hit |-> TRUE, shots |-> Splice(shots, last)]
     ELSE [hit |-> FALSE, shots |-> shots]

\* A lone player projectile comes to stand at an offset from the boss.
AimShot ==
  /\ probe = NoProbe
  /\ \E dx \in Offsets, dy \in Offsets :
       probe' = [type |-> "aim", dx |-> dx, dy |-> dy, lastHitTime |-> 0,
                 verdict |-> "none", left |-> 1]
  /\ UNCHANGED gameState

\* The enemy loop calls checkProjectileCollision(boss), line 86.
BossShotCheck ==
  /\ probe.type = "aim"
  /\ probe.verdict = "none"
  /\ \E t0 \in HitTimes :
       LET boss == [isBoss |-> TRUE, size |-> BossSize, lastHitTime |-> t0]
           r == CheckProjectileCollision(boss, CheckTime,
                                         <<[dx |-> probe.dx, dy |-> probe.dy]>>)
       IN probe' = [probe EXCEPT !.lastHitTime = t0,
                                 !.verdict = IF r.hit THEN "hit" ELSE "miss",
                                 !.left = Len(r.shots)]
  /\ UNCHANGED gameState

\* The projectile is gone; the next one is looked at.
AimAgain ==
  /\ probe.type = "aim"
  /\ probe.verdict # "none"
  /\ probe' = NoProbe
  /\ UNCHANGED gameState

NextPrefilter == AimShot \/ BossShotCheck \/ AimAgain

SpecPrefilter == Init /\ [][NextPrefilter]_vars

\* C40: outside the throttle window, a lone projectile whose centre is
\* closer to the boss centre than projectile.size + boss.size = 48 is
\* reported as a hit by checkProjectileCollision: the Manhattan prefilter
\* rejects no offset that the circle test accepts.
C40_PrefilterConservative ==
  (/\ probe.type = "aim"
   /\ probe.verdict # "none"
   /\ probe.lastHitTime = 0 \/ CheckTime - probe.lastHitTime >= 80
   /\ probe.dx * probe.dx + probe.dy * probe.dy < (48 * Scale) * (48 * Scale))
  => probe.verdict = "hit"

=============================================================================
